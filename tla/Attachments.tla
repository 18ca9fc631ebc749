------------------------------ MODULE Attachments ------------------------------
(***************************************************************************)
(* Encrypted attachments: an upload intent, the object PUT to R2 under a   *)
(* presigned URL, its link to a message, its deletion and the background   *)
(* cleanup job (services/api/src/lib.rs, docs/17).                         *)
(*                                                                         *)
(* Each SQL statement and each R2 call of a handler is a step of its own;  *)
(* only the transaction that stores a message, links its attachments and   *)
(* marks them attached is atomic.                                          *)
(***************************************************************************)
EXTENDS Naturals, FiniteSets

CONSTANTS
  Uploads,     \* ids of attachment_uploads rows (and of their R2 objects)
  Sends,       \* message sends; each creates a row per side
  Reqs,        \* in-flight handlers of the API server
  None,        \* "no value"
  PURGE_LIMIT  \* the LIMIT of one cleanup pass

ASSUME NoneAssumption == None \notin Uploads \cup Sends
ASSUME LimitAssumption == PURGE_LIMIT \in Nat \ {0}

VARIABLES
  upload,      \* attachment_uploads
  blob,        \* is the object in the bucket
  links,       \* message_attachments: <<send, side, upload>>
  req,         \* in-flight handlers
  job,         \* the cleanup job
  ownerDelete  \* history: uploads whose owner's DELETE has reached R2

vars == <<upload, blob, links, req, job, ownerDelete>>

-----------------------------------------------------------------------------
Statuses == {"none", "issued", "uploaded", "attached", "deleted", "expired"}

\* A cross-user send has a row, and a link per attachment, on both sides.
Sides == {"sender", "recipient"}

\* urlExpired: upload_expires_at has passed (the presigned PUT URL has the same
\* lifetime); aged: uploaded_at is over ATTACHMENT_UPLOADED_ORPHAN_SECS ago, which
\* is only asked, and only kept here, while the row is 'uploaded';
\* deletedAt, purgedAt: the column is not NULL.
UploadRow == [status     : Statuses,
              urlExpired : BOOLEAN,
              aged       : BOOLEAN,
              deletedAt  : BOOLEAN,
              purgedAt   : BOOLEAN]

\* up: the attachments a handler works on, of which todo are not validated yet.
Handler == [pc   : {"idle", "complete_expire", "complete_head", "complete_update",
                    "validate", "attach", "delete_object", "delete_update", "delete_update_failed"},
            up   : SUBSET Uploads,
            todo : SUBSET Uploads]

Idle == [pc |-> "idle", up |-> {}, todo |-> {}]

\* The statement the cleanup job runs next, and the rows it still has to purge.
Job == [pc   : {"sleep", "expire_issued", "expire_uploaded", "select", "purge", "mark"},
        todo : SUBSET Uploads,
        up   : Uploads \cup {None}]

TypeOK ==
  /\ upload \in [Uploads -> UploadRow]
  /\ blob \in [Uploads -> BOOLEAN]
  /\ links \subseteq Sends \X Sides \X Uploads
  /\ req \in [Reqs -> Handler]
  /\ job \in Job
  /\ ownerDelete \subseteq Uploads

Init ==
  /\ upload = [u \in Uploads |-> [status |-> "none", urlExpired |-> FALSE, aged |-> FALSE,
                                  deletedAt |-> FALSE, purgedAt |-> FALSE]]
  /\ blob = [u \in Uploads |-> FALSE]
  /\ links = {}
  /\ req = [r \in Reqs |-> Idle]
  /\ job = [pc |-> "sleep", todo |-> {}, up |-> None]
  /\ ownerDelete = {}

-----------------------------------------------------------------------------
Start(r, pc, U) ==
  /\ req[r] = Idle
  /\ req' = [req EXCEPT ![r] = [pc |-> pc, up |-> U, todo |-> U]]

Goto(r, pc) == req' = [req EXCEPT ![r].pc = pc]

Finish(r) == req' = [req EXCEPT ![r] = Idle]

Status(u) == upload[u].status

Linked(u) == \E m \in Sends, s \in Sides : <<m, s, u>> \in links

SetStatus(U, status) ==
  upload' = [u \in Uploads |->
               IF u \in U THEN [upload[u] EXCEPT !.status = status, !.aged = FALSE] ELSE upload[u]]

\* SET status = <status>, deleted_at = NOW()
Retire(U, status) ==
  upload' = [u \in Uploads |->
               IF u \in U THEN [upload[u] EXCEPT !.status = status, !.aged = FALSE,
                                                  !.deletedAt = TRUE]
               ELSE upload[u]]

-----------------------------------------------------------------------------
(* The upload. *)

\* POST /attachments/intents
CreateAttachmentIntent(u) ==
  /\ Status(u) = "none"
  /\ SetStatus({u}, "issued")
  /\ UNCHANGED <<blob, links, req, job, ownerDelete>>

\* The client PUTs the object while the presigned URL is valid; the URL knows
\* nothing of the row's status.
PutObject(u) ==
  /\ Status(u) # "none"
  /\ ~upload[u].urlExpired
  /\ ~blob[u]
  /\ blob' = [blob EXCEPT ![u] = TRUE]
  /\ UNCHANGED <<upload, links, req, job, ownerDelete>>

\* POST /attachments/:id/complete: the row must be 'issued' ...
CompleteAttachment(r, u) ==
  /\ Status(u) = "issued"
  /\ Start(r, IF upload[u].urlExpired THEN "complete_expire" ELSE "complete_head", {u})
  /\ UNCHANGED <<upload, blob, links, job, ownerDelete>>

\* ... an expired intent is marked, deleted_at stays NULL ...
CompleteExpired(r) ==
  /\ req[r].pc = "complete_expire"
  /\ SetStatus({u \in req[r].up : Status(u) = "issued"}, "expired")
  /\ Finish(r)
  /\ UNCHANGED <<blob, links, job, ownerDelete>>

\* ... HEAD must find the object (with the promised size and metadata) ...
CompleteHead(r) ==
  /\ req[r].pc = "complete_head"
  /\ \A u \in req[r].up : blob[u]
  /\ Goto(r, "complete_update")
  /\ UNCHANGED <<upload, blob, links, job, ownerDelete>>

\* Mutant: the UPDATE without AND status = 'issued'.
CompleteUpdateUnguarded(r) ==
  /\ req[r].pc = "complete_update"
  /\ SetStatus(req[r].up, "uploaded")
  /\ Finish(r)
  /\ UNCHANGED <<blob, links, job, ownerDelete>>

\* ... and the row becomes 'uploaded' if it is 'issued' still.
CompleteUpdate(r) ==
  /\ req[r].pc = "complete_update"
  /\ SetStatus({u \in req[r].up : Status(u) = "issued"}, "uploaded")
  /\ Finish(r)
  /\ UNCHANGED <<blob, links, job, ownerDelete>>

-----------------------------------------------------------------------------
(* Sending a message with attachments. *)

\* POST /messages names some attachments ...
SendMessage(r, U) ==
  /\ U # {}
  /\ Start(r, "validate", U)
  /\ UNCHANGED <<upload, blob, links, job, ownerDelete>>

\* ... each is read and HEADed, one after the other ...
PrevalidateAttachment(r, u) ==
  /\ req[r].pc = "validate"
  /\ u \in req[r].todo
  /\ Status(u) = "uploaded"
  /\ blob[u]
  /\ req' = [req EXCEPT ![r].todo = @ \ {u},
                        ![r].pc = IF req[r].todo = {u} THEN "attach" ELSE @]
  /\ UNCHANGED <<upload, blob, links, job, ownerDelete>>

\* Mutant: the UPDATE ... AND status = 'uploaded' that affects no row is not
\* noticed, and the transaction commits.
AttachAnyway(r, m, S) ==
  /\ req[r].pc = "attach"
  /\ \A s \in Sides, u \in Uploads : <<m, s, u>> \notin links
  /\ SetStatus({u \in req[r].up : Status(u) = "uploaded"}, "attached")
  /\ links' = links \cup ({m} \X S \X req[r].up)
  /\ Finish(r)
  /\ UNCHANGED <<blob, job, ownerDelete>>

\* ... then one transaction stores the message rows of the sides S, links the
\* attachments and marks them attached; if one is not 'uploaded' any more it
\* rolls back (409 attachment_race, see Cancel).
AttachInTx(r, m, S) ==
  /\ req[r].pc = "attach"
  /\ \A s \in Sides, u \in Uploads : <<m, s, u>> \notin links
  /\ \A u \in req[r].up : Status(u) = "uploaded"
  /\ SetStatus(req[r].up, "attached")
  /\ links' = links \cup ({m} \X S \X req[r].up)
  /\ Finish(r)
  /\ UNCHANGED <<blob, job, ownerDelete>>

\* GET /messages/:id/attachments/:id/download-url: the message row and its link
\* exist and the upload is 'attached'.
DownloadUrlIssued(m, s, u) == <<m, s, u>> \in links /\ Status(u) = "attached"

\* A message row is deleted by its owner; the foreign key
\* cascades to its links.
DeleteMessage(m, s) ==
  /\ \E u \in Uploads : <<m, s, u>> \in links
  /\ links' = {l \in links : ~(l[1] = m /\ l[2] = s)}
  /\ UNCHANGED <<upload, blob, req, job, ownerDelete>>

-----------------------------------------------------------------------------
(* DELETE /attachments/:id by the owner. *)

\* The status check; an already deleted row needs nothing.
DeleteAttachment(r, u) ==
  /\ Status(u) \in {"issued", "uploaded", "expired"}
  /\ Start(r, "delete_object", {u})
  /\ UNCHANGED <<upload, blob, links, job, ownerDelete>>

\* The R2 delete, best effort.
DeleteAttachmentObject(r) ==
  /\ req[r].pc = "delete_object"
  /\ \/ /\ blob' = [u \in Uploads |-> IF u \in req[r].up THEN FALSE ELSE blob[u]]
        /\ Goto(r, "delete_update")
     \/ /\ UNCHANGED blob
        /\ Goto(r, "delete_update_failed")
  /\ ownerDelete' = ownerDelete \cup req[r].up
  /\ UNCHANGED <<upload, links, job>>

\* UPDATE ... SET status = 'deleted', deleted_at, purged_at WHERE id = $1
DeleteAttachmentUpdate(r) ==
  /\ req[r].pc \in {"delete_update", "delete_update_failed"}
  /\ upload' = [u \in Uploads |->
                  IF u \in req[r].up
                    THEN [upload[u] EXCEPT !.status = "deleted", !.aged = FALSE, !.deletedAt = TRUE,
                                           !.purgedAt = @ \/ req[r].pc = "delete_update"]
                    ELSE upload[u]]
  /\ Finish(r)
  /\ UNCHANGED <<blob, links, job, ownerDelete>>

-----------------------------------------------------------------------------
(* run_attachment_cleanup_pass, every ATTACHMENT_CLEANUP_INTERVAL_SECS.  A    *)
(* failed UPDATE is skipped.                                                 *)

\* Mutant: the UPDATE without the NOT EXISTS on message_attachments.
RetireAttached ==
  /\ job.pc = "sleep"
  /\ \/ Retire({u \in Uploads : Status(u) = "attached" /\ ~upload[u].deletedAt}, "deleted")
     \/ UNCHANGED upload
  /\ job' = [job EXCEPT !.pc = "expire_issued"]
  /\ UNCHANGED <<blob, links, req, ownerDelete>>

\* Mutant: step 0 does not exist (the leak fixed by "audit 2026-09-04").
RetireNothing ==
  /\ job.pc = "sleep"
  /\ job' = [job EXCEPT !.pc = "expire_issued"]
  /\ UNCHANGED <<upload, blob, links, req, ownerDelete>>

\* Step 0: attached uploads whose every link is gone.
RetireUnlinked ==
  /\ job.pc = "sleep"
  /\ \/ Retire({u \in Uploads : /\ Status(u) = "attached"
                                /\ ~upload[u].deletedAt
                                /\ ~Linked(u)}, "deleted")
     \/ UNCHANGED upload
  /\ job' = [job EXCEPT !.pc = "expire_issued"]
  /\ UNCHANGED <<blob, links, req, ownerDelete>>

\* Step 1: intents past their deadline.
ExpireIssued ==
  /\ job.pc = "expire_issued"
  /\ \/ Retire({u \in Uploads : Status(u) = "issued" /\ upload[u].urlExpired}, "expired")
     \/ UNCHANGED upload
  /\ job' = [job EXCEPT !.pc = "expire_uploaded"]
  /\ UNCHANGED <<blob, links, req, ownerDelete>>

\* Step 2: uploads nobody attached within a day.
ExpireUploaded ==
  /\ job.pc = "expire_uploaded"
  /\ \/ Retire({u \in Uploads : Status(u) = "uploaded" /\ upload[u].aged}, "expired")
     \/ UNCHANGED upload
  /\ job' = [job EXCEPT !.pc = "select"]
  /\ UNCHANGED <<blob, links, req, ownerDelete>>

\* Mutant: expired rows are forgotten.
PurgeCandidatesDeleted ==
  {u \in Uploads : Status(u) = "deleted" /\ upload[u].deletedAt /\ ~upload[u].purgedAt}

\* deleted_at IS NOT NULL AND purged_at IS NULL
PurgeCandidates == {u \in Uploads : upload[u].deletedAt /\ ~upload[u].purgedAt}

\* Step 3: at most PURGE_LIMIT rows that are deleted and not purged.
SelectPurgeCandidates ==
  /\ job.pc = "select"
  /\ \E T \in SUBSET PurgeCandidates :
       /\ \/ T = PurgeCandidates /\ Cardinality(T) <= PURGE_LIMIT
          \/ Cardinality(T) = PURGE_LIMIT
       /\ job' = [job EXCEPT !.todo = T, !.pc = IF T = {} THEN "sleep" ELSE "purge"]
  /\ UNCHANGED <<upload, blob, links, req, ownerDelete>>

\* R2 deletes the next object (a delete of a missing object succeeds) ...
PurgeObject(u) ==
  /\ job.pc = "purge"
  /\ u \in job.todo
  /\ blob' = [blob EXCEPT ![u] = FALSE]
  /\ job' = [pc |-> "mark", todo |-> job.todo \ {u}, up |-> u]
  /\ UNCHANGED <<upload, links, req, ownerDelete>>

NextRow(T) == [pc |-> IF T = {} THEN "sleep" ELSE "purge", todo |-> T, up |-> None]

\* ... or fails to, and the row is left to the next pass ...
PurgeObjectFails(u) ==
  /\ job.pc = "purge"
  /\ u \in job.todo
  /\ job' = NextRow(job.todo \ {u})
  /\ UNCHANGED <<upload, blob, links, req, ownerDelete>>

\* ... and purged_at is set (an error is ignored).
MarkPurged ==
  /\ job.pc = "mark"
  /\ upload' = [upload EXCEPT ![job.up].purgedAt = TRUE]
  /\ job' = NextRow(job.todo)
  /\ UNCHANGED <<blob, links, req, ownerDelete>>

MarkPurgedFails ==
  /\ job.pc = "mark"
  /\ job' = NextRow(job.todo)
  /\ UNCHANGED <<upload, blob, links, req, ownerDelete>>

-----------------------------------------------------------------------------
\* A handler is refused, times out, or dies between two steps.
Cancel(r) ==
  /\ req[r] # Idle
  /\ Finish(r)
  /\ UNCHANGED <<upload, blob, links, job, ownerDelete>>

\* The process running the job restarts.
JobRestarts ==
  /\ job.pc # "sleep"
  /\ job' = NextRow({})
  /\ UNCHANGED <<upload, blob, links, req, ownerDelete>>

UploadUrlExpires(u) ==
  /\ Status(u) # "none"
  /\ ~upload[u].urlExpired
  /\ upload' = [upload EXCEPT ![u].urlExpired = TRUE]
  /\ UNCHANGED <<blob, links, req, job, ownerDelete>>

UploadAges(u) ==
  /\ Status(u) = "uploaded"
  /\ upload[u].urlExpired
  /\ ~upload[u].aged
  /\ upload' = [upload EXCEPT ![u].aged = TRUE]
  /\ UNCHANGED <<blob, links, req, job, ownerDelete>>

ClientStep ==
  \/ \E u \in Uploads : CreateAttachmentIntent(u) \/ PutObject(u)
  \/ \E m \in Sends, s \in Sides : DeleteMessage(m, s)
  \/ \E r \in Reqs :
       \/ \E u \in Uploads : \/ CompleteAttachment(r, u)
                             \/ PrevalidateAttachment(r, u)
                             \/ DeleteAttachment(r, u)
       \/ \E U \in SUBSET Uploads : SendMessage(r, U)
       \/ \E m \in Sends, S \in {{"sender"}, Sides} : AttachInTx(r, m, S)
       \/ CompleteExpired(r)
       \/ CompleteHead(r)
       \/ CompleteUpdate(r)
       \/ DeleteAttachmentObject(r)
       \/ DeleteAttachmentUpdate(r)

JobStep ==
  \/ RetireUnlinked
  \/ ExpireIssued
  \/ ExpireUploaded
  \/ SelectPurgeCandidates
  \/ \E u \in Uploads : PurgeObject(u) \/ PurgeObjectFails(u)
  \/ MarkPurged
  \/ MarkPurgedFails

EnvironmentStep ==
  \/ \E r \in Reqs : Cancel(r)
  \/ JobRestarts
  \/ \E u \in Uploads : UploadUrlExpires(u) \/ UploadAges(u)

Next == ClientStep \/ JobStep \/ EnvironmentStep

Spec == Init /\ [][Next]_vars

\* The job's loop never stops, and no statement of it is cut short by a restart,
\* or refused by the database or R2, in every pass for ever.
Fairness ==
  /\ WF_vars(JobStep)
  /\ SF_vars(RetireUnlinked /\ upload' # upload)
  /\ SF_vars(ExpireIssued)
  /\ SF_vars(ExpireUploaded)
  /\ SF_vars(SelectPurgeCandidates)
  /\ \A u \in Uploads : SF_vars(PurgeObject(u))
  /\ SF_vars(MarkPurged)

FairSpec == Spec /\ Fairness

-----------------------------------------------------------------------------
(* Properties. *)

\* An upload is never double-spent: whatever sends run at once, all links of an
\* upload belong to one send (mark_attachments_attached_in_tx).
NoDoubleSpend ==
  \A l, k \in links : l[3] = k[3] => l[1] = k[1]

\* A linked attachment stays downloadable: unless its owner's own DELETE reached
\* R2, every link gets a download URL, and the object is in the bucket, whatever
\* the cleanup job, late completions and retries do.
LinkedIsDownloadable ==
  \A l \in links :
    l[3] \notin ownerDelete => DownloadUrlIssued(l[1], l[2], l[3]) /\ blob[l[3]]

\* A retired upload is never revived: no completion or send that read the row
\* earlier turns a deleted or expired upload into a usable one.
RetiredIsFinal ==
  [][\A u \in Uploads :
       Status(u) \in {"deleted", "expired"}
         => upload'[u].status \in {"deleted", "expired"}]_vars

\* Both owners deleted their copies: the upload and its object are eventually
\* reclaimed (step 0 and step 3 of run_attachment_cleanup_pass).
UnlinkedIsReclaimed ==
  \A u \in Uploads : (Status(u) = "attached" /\ ~Linked(u)) ~> upload[u].purgedAt

\* "background orphan cleanup retries": an object marked for deletion is
\* eventually purged although R2 deletes, the job and its UPDATEs may fail.
DeletedIsPurged ==
  \A u \in Uploads : upload[u].deletedAt ~> upload[u].purgedAt

=============================================================================
