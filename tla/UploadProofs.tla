------------------------------- MODULE UploadProofs -------------------------------
(***************************************************************************)
(* Proofs about uploads, on the server and in the page that makes them:    *)
(* Attachments, for any number of uploads, sends, handlers and any limit   *)
(* of a cleanup pass, and Compose, for any files, runs of the submit       *)
(* handler and bounds.                                                     *)
(***************************************************************************)
EXTENDS Attachments, Compose, TLAPS

-----------------------------------------------------------------------------
(***************************************************************************)
(* Attachments.  The argument is about the status of a row: it only moves  *)
(* forward, from issued to uploaded to attached to retired, and each of    *)
(* the handlers that read it earlier finds out in its last UPDATE.         *)
(***************************************************************************)

\* The statuses of rows that no client can use any more.
Retired == {"deleted", "expired"}

\* A row with deleted_at is retired, and the job only purges such rows.
RetiredInv ==
  /\ \A u \in Uploads : upload[u].deletedAt => Status(u) \in Retired
  /\ \A u \in job.todo : upload[u].deletedAt

\* A linked row has left the statuses in which a send could attach it; it is
\* 'attached' unless its owner's DELETE has reached R2.
LinkInv ==
  \A l \in links :
    /\ Status(l[3]) \in {"attached"} \cup Retired
    /\ l[3] \notin ownerDelete => Status(l[3]) = "attached"

\* A DELETE about to retire the row has reached R2.
OwnerInv ==
  \A r \in Reqs :
    req[r].pc \in {"delete_update", "delete_update_failed"} => req[r].up \subseteq ownerDelete

\* The object of a usable row, and of one about to become usable, is there
\* unless its owner's DELETE has reached R2.
BlobInv ==
  /\ \A u \in Uploads :
       Status(u) \in {"uploaded", "attached"} /\ u \notin ownerDelete => blob[u]
  /\ \A r \in Reqs : req[r].pc = "complete_update" =>
       \A u \in req[r].up : Status(u) \in {"none", "issued"} /\ u \notin ownerDelete => blob[u]

\* The inductive invariant.
AInv == TypeOK /\ RetiredInv /\ LinkInv /\ OwnerInv /\ BlobInv /\ NoDoubleSpend

-----------------------------------------------------------------------------
(* What the helpers of the actions do. *)

\* A new handler, whatever it starts with.
LEMMA StartStep ==
  ASSUME TypeOK, NEW r \in Reqs, NEW U \in SUBSET Uploads,
         NEW pc \in {"complete_expire", "complete_head", "validate", "delete_object"},
         Start(r, pc, U)
  PROVE  /\ req' \in [Reqs -> Handler]
         /\ \A s \in Reqs : \/ req'[s] = req[s]
                            \/ req'[s].pc = pc
<1>1. [pc |-> pc, up |-> U, todo |-> U] \in Handler
  BY DEF Handler
<1> QED
  BY <1>1 DEF Start, TypeOK

\* A handler moves on to its next statement.
LEMMA GotoStep ==
  ASSUME TypeOK, NEW r \in Reqs,
         NEW pc \in {"complete_update", "delete_update", "delete_update_failed"}, Goto(r, pc)
  PROVE  /\ req' \in [Reqs -> Handler]
         /\ req'[r].pc = pc /\ req'[r].up = req[r].up
         /\ \A s \in Reqs \ {r} : req'[s] = req[s]
<1>1. [req[r] EXCEPT !.pc = pc] \in Handler
  BY DEF Handler, TypeOK
<1> QED
  BY <1>1 DEF Goto, TypeOK, Handler

\* A handler ends.
LEMMA FinishStep ==
  ASSUME TypeOK, NEW r \in Reqs, Finish(r)
  PROVE  /\ req' \in [Reqs -> Handler]
         /\ \A s \in Reqs : req'[s] = req[s] \/ req'[s] = Idle
<1>1. Idle \in Handler
  BY DEF Handler, Idle
<1> QED
  BY <1>1 DEF Finish, TypeOK

\* UPDATE ... SET status.
LEMMA SetStatusStep ==
  ASSUME TypeOK, NEW U \in SUBSET Uploads, NEW status \in Statuses, SetStatus(U, status)
  PROVE  /\ upload' \in [Uploads -> UploadRow]
         /\ \A u \in Uploads :
              /\ upload'[u].status = IF u \in U THEN status ELSE Status(u)
              /\ upload'[u].deletedAt = upload[u].deletedAt
<1>1. ASSUME NEW u \in Uploads
      PROVE  /\ [upload[u] EXCEPT !.status = status, !.aged = FALSE] \in UploadRow
             /\ [upload[u] EXCEPT !.status = status, !.aged = FALSE].status = status
             /\ [upload[u] EXCEPT !.status = status, !.aged = FALSE].deletedAt = upload[u].deletedAt
  BY DEF TypeOK, UploadRow
<1> QED
  BY <1>1 DEF SetStatus, Status, TypeOK

\* UPDATE ... SET status, deleted_at.
LEMMA RetireStep ==
  ASSUME TypeOK, NEW U \in SUBSET Uploads, NEW status \in Statuses, Retire(U, status)
  PROVE  /\ upload' \in [Uploads -> UploadRow]
         /\ \A u \in Uploads :
              /\ upload'[u].status = IF u \in U THEN status ELSE Status(u)
              /\ upload'[u].deletedAt = (upload[u].deletedAt \/ u \in U)
<1> DEFINE row(u) == [upload[u] EXCEPT !.status = status, !.aged = FALSE, !.deletedAt = TRUE]
<1>1. ASSUME NEW u \in Uploads
      PROVE  row(u) \in UploadRow /\ row(u).status = status /\ row(u).deletedAt = TRUE
  BY DEF TypeOK, UploadRow
<1>2. upload' = [u \in Uploads |-> IF u \in U THEN row(u) ELSE upload[u]]
  BY DEF Retire
<1>3. \A u \in Uploads : upload[u] \in UploadRow /\ upload[u].deletedAt \in BOOLEAN
  BY DEF TypeOK, UploadRow
<1> HIDE DEF row
<1> QED
  BY <1>1, <1>2, <1>3 DEF Status

-----------------------------------------------------------------------------
(* Each action preserves the invariant. *)

\* A step that changes nothing but handlers: what they arrive with is what the
\* invariant says of their new statement.
LEMMA HandlerStep ==
  ASSUME AInv, req' \in [Reqs -> Handler],
         UNCHANGED <<upload, blob, links, job, ownerDelete>>,
         \A r \in Reqs : \/ req'[r] = req[r]
                         \/ req'[r].pc \notin {"complete_update", "delete_update", "delete_update_failed"}
                         \/ req'[r].pc = "complete_update" /\ \A u \in req'[r].up : blob[u]
  PROVE  AInv'
BY DEF AInv, TypeOK, RetiredInv, LinkInv, OwnerInv, BlobInv, NoDoubleSpend, Status, Retired

\* Handlers that start, are refused or time out, and the reads of a completion
\* and of a send.
LEMMA ReadsPreserve ==
  ASSUME AInv, NEW r \in Reqs,
         \/ \E u \in Uploads : CompleteAttachment(r, u) \/ PrevalidateAttachment(r, u) \/ DeleteAttachment(r, u)
         \/ \E U \in SUBSET Uploads : SendMessage(r, U)
         \/ CompleteHead(r)
         \/ Cancel(r)
  PROVE  AInv'
<1>0. TypeOK
  BY DEF AInv
<1>1. ASSUME NEW u \in Uploads, CompleteAttachment(r, u)
      PROVE  AInv'
  <2>1. PICK pc \in {"complete_expire", "complete_head"} : Start(r, pc, {u})
    BY <1>1 DEF CompleteAttachment
  <2> QED
    BY <1>0, <1>1, <2>1, StartStep, HandlerStep DEF CompleteAttachment
<1>2. ASSUME NEW u \in Uploads, PrevalidateAttachment(r, u)
      PROVE  AInv'
  <2>1. PICK pc \in {"validate", "attach"} :
          req' = [req EXCEPT ![r] = [req[r] EXCEPT !.todo = @ \ {u}, !.pc = pc]]
    BY <1>0, <1>2 DEF PrevalidateAttachment, TypeOK, Handler
  <2> DEFINE h == [req[r] EXCEPT !.todo = @ \ {u}, !.pc = pc]
  <2>2. h \in Handler /\ h.pc = pc
    BY <1>0 DEF TypeOK, Handler
  <2>3. req' \in [Reqs -> Handler] /\ \A s \in Reqs : req'[s] = req[s] \/ req'[s].pc = pc
    BY <1>0, <2>1, <2>2 DEF TypeOK
  <2> QED
    BY <1>2, <2>3, HandlerStep DEF PrevalidateAttachment
<1>3. ASSUME NEW u \in Uploads, DeleteAttachment(r, u)
      PROVE  AInv'
  BY <1>0, <1>3, StartStep, HandlerStep DEF DeleteAttachment
<1>4. ASSUME NEW U \in SUBSET Uploads, SendMessage(r, U)
      PROVE  AInv'
  BY <1>0, <1>4, StartStep, HandlerStep DEF SendMessage
<1>5. CASE CompleteHead(r)
  <2>1. req' \in [Reqs -> Handler] /\ req'[r].pc = "complete_update" /\ req'[r].up = req[r].up
        /\ \A s \in Reqs \ {r} : req'[s] = req[s]
    BY <1>0, <1>5, GotoStep DEF CompleteHead
  <2> QED
    BY <1>5, <2>1, HandlerStep DEF CompleteHead
<1>6. CASE Cancel(r)
  BY <1>0, <1>6, FinishStep, HandlerStep DEF Cancel, Idle
<1> QED
  BY <1>1, <1>2, <1>3, <1>4, <1>5, <1>6

\* A step in which rows only move forward: every row keeps its status, is
\* uploaded with its object in place, is attached from 'uploaded' (links are
\* looked at apart), or is retired while no live link needs it.
Forward(u) ==
  \/ upload'[u].status = Status(u) /\ upload'[u].deletedAt = upload[u].deletedAt
  \/ /\ Status(u) = "none" /\ upload'[u].status = "issued"
     /\ upload'[u].deletedAt = upload[u].deletedAt
  \/ /\ Status(u) = "issued" /\ upload'[u].status = "uploaded"
     /\ upload'[u].deletedAt = upload[u].deletedAt
     /\ u \in ownerDelete \/ blob[u]
  \/ /\ Status(u) # "attached" \/ u \in ownerDelete \/ ~Linked(u)
     /\ Status(u) = "attached" \/ u \in ownerDelete \/ Status(u) \in {"issued", "uploaded"}
     /\ upload'[u].status \in Retired
     /\ upload[u].deletedAt => upload'[u].deletedAt

\* Rows move forward, handlers end or go on as they are, the rest stays.
LEMMA RowStep ==
  ASSUME AInv, upload' \in [Uploads -> UploadRow], \A u \in Uploads : Forward(u),
         req' \in [Reqs -> Handler], \A r \in Reqs : req'[r] = req[r] \/ req'[r] = Idle,
         UNCHANGED <<blob, links, ownerDelete>>,
         job' \in Job, job'.todo \subseteq job.todo
  PROVE  AInv'
<1>0. /\ TypeOK
      /\ \A l \in links : l[3] \in Uploads /\ Linked(l[3])
      /\ \A r \in Reqs : req[r].up \in SUBSET Uploads
      /\ job.todo \in SUBSET Uploads
  BY DEF AInv, TypeOK, Linked, Handler, Job
<1>1. TypeOK'
  BY <1>0 DEF TypeOK
<1>2. RetiredInv'
  BY <1>0 DEF AInv, RetiredInv, Forward, Status, Retired
<1>3. LinkInv'
  <2>1. ASSUME NEW l \in links
        PROVE  /\ upload'[l[3]].status \in {"attached"} \cup Retired
               /\ l[3] \notin ownerDelete => upload'[l[3]].status = "attached"
    <3>1. Forward(l[3]) /\ Linked(l[3])
      BY <1>0
    <3>2. Status(l[3]) \in {"attached"} \cup Retired /\ (l[3] \notin ownerDelete => Status(l[3]) = "attached")
      BY DEF AInv, LinkInv
    <3> QED
      BY <3>1, <3>2 DEF Forward, Retired
  <2> QED
    BY <2>1 DEF LinkInv, Status
<1>4. OwnerInv'
  BY DEF AInv, OwnerInv, Idle
<1>5. BlobInv'
  BY <1>0 DEF AInv, BlobInv, Forward, Status, Idle, Retired
<1>6. NoDoubleSpend'
  BY DEF AInv, NoDoubleSpend
<1> QED
  BY <1>1, <1>2, <1>3, <1>4, <1>5, <1>6 DEF AInv

\* The statements of the handlers that change a row.
LEMMA RowUpdatesPreserve ==
  ASSUME AInv, NEW r \in Reqs,
         CompleteExpired(r) \/ CompleteUpdate(r) \/ DeleteAttachmentUpdate(r)
  PROVE  AInv'
<1>0. /\ TypeOK
      /\ req[r].up \in SUBSET Uploads
      /\ \A u \in Uploads : upload[u] \in UploadRow /\ upload[u].deletedAt \in BOOLEAN
      /\ job \in Job
  BY DEF AInv, TypeOK, Handler, UploadRow
<1>1. req' \in [Reqs -> Handler] /\ \A s \in Reqs : req'[s] = req[s] \/ req'[s] = Idle
  BY <1>0, FinishStep DEF CompleteExpired, CompleteUpdate, DeleteAttachmentUpdate
<1>2. UNCHANGED <<blob, links, ownerDelete, job>>
  BY DEF CompleteExpired, CompleteUpdate, DeleteAttachmentUpdate
<1>3. CASE CompleteExpired(r)
  <2> DEFINE U == {u \in req[r].up : Status(u) = "issued"}
  <2>1. U \in SUBSET Uploads /\ SetStatus(U, "expired") /\ "expired" \in Statuses
    BY <1>0, <1>3 DEF CompleteExpired, Statuses
  <2>2. \A u \in U : Status(u) = "issued"
    OBVIOUS
  <2> HIDE DEF U
  <2>3. upload' \in [Uploads -> UploadRow] /\ \A u \in Uploads : Forward(u)
    <3>1. /\ upload' \in [Uploads -> UploadRow]
          /\ \A u \in Uploads : /\ upload'[u].status = IF u \in U THEN "expired" ELSE Status(u)
                               /\ upload'[u].deletedAt = upload[u].deletedAt
      BY <1>0, <2>1, SetStatusStep
    <3> QED
      BY <2>2, <3>1 DEF Forward, Retired
  <2> QED
    BY <1>0, <1>1, <1>2, <2>3, RowStep
<1>4. CASE CompleteUpdate(r)
  <2> DEFINE U == {u \in req[r].up : Status(u) = "issued"}
  <2>1. U \in SUBSET Uploads /\ SetStatus(U, "uploaded") /\ "uploaded" \in Statuses
    BY <1>0, <1>4 DEF CompleteUpdate, Statuses
  <2>2. \A u \in U : Status(u) = "issued" /\ (u \in ownerDelete \/ blob[u])
    BY <1>4 DEF CompleteUpdate, AInv, BlobInv
  <2> HIDE DEF U
  <2>3. upload' \in [Uploads -> UploadRow] /\ \A u \in Uploads : Forward(u)
    BY <1>0, <2>1, <2>2, SetStatusStep DEF Forward
  <2> QED
    BY <1>0, <1>1, <1>2, <2>3, RowStep
<1>5. CASE DeleteAttachmentUpdate(r)
  <2> DEFINE row(u) == [upload[u] EXCEPT !.status = "deleted", !.aged = FALSE, !.deletedAt = TRUE,
                                         !.purgedAt = @ \/ req[r].pc = "delete_update"]
  <2>1. upload' = [u \in Uploads |-> IF u \in req[r].up THEN row(u) ELSE upload[u]]
    BY <1>5 DEF DeleteAttachmentUpdate
  <2>2. ASSUME NEW u \in Uploads
        PROVE  row(u) \in UploadRow /\ row(u).status = "deleted" /\ row(u).deletedAt = TRUE
    <3>1. (upload[u].purgedAt \/ req[r].pc = "delete_update") \in BOOLEAN
      BY <1>0
    <3> QED
      BY <1>0, <3>1 DEF UploadRow, Statuses
  <2>3. req[r].up \subseteq ownerDelete
    BY <1>5 DEF DeleteAttachmentUpdate, AInv, OwnerInv
  <2> HIDE DEF row
  <2>4. upload' \in [Uploads -> UploadRow] /\ \A u \in Uploads : Forward(u)
    BY <1>0, <2>1, <2>2, <2>3 DEF Forward, Retired, Status
  <2> QED
    BY <1>0, <1>1, <1>2, <2>4, RowStep
<1> QED
  BY <1>3, <1>4, <1>5

\* A step that leaves the handlers alone keeps them as they are.
LEMMA SameHandlers ==
  ASSUME AInv, UNCHANGED req
  PROVE  req' \in [Reqs -> Handler] /\ \A r \in Reqs : req'[r] = req[r] \/ req'[r] = Idle
BY DEF AInv, TypeOK

\* An intent is created, time passes.
LEMMA TimePreserves ==
  ASSUME AInv, NEW u \in Uploads, CreateAttachmentIntent(u) \/ UploadUrlExpires(u) \/ UploadAges(u)
  PROVE  AInv'
<1>0. TypeOK /\ job \in Job /\ \A v \in Uploads : upload[v] \in UploadRow
  BY DEF AInv, TypeOK
<1>1. UNCHANGED <<blob, links, req, job, ownerDelete>>
  BY DEF CreateAttachmentIntent, UploadUrlExpires, UploadAges
<1>2. upload' \in [Uploads -> UploadRow] /\ \A v \in Uploads : Forward(v)
  <2>1. CASE CreateAttachmentIntent(u)
    <3>1. "issued" \in Statuses /\ SetStatus({u}, "issued") /\ Status(u) = "none"
      BY <2>1 DEF CreateAttachmentIntent, Statuses
    <3> QED
      BY <1>0, <3>1, SetStatusStep DEF Forward
  <2>2. CASE UploadUrlExpires(u)
    <3>1. [upload[u] EXCEPT !.urlExpired = TRUE] \in UploadRow
      BY <1>0 DEF UploadRow
    <3> QED
      BY <1>0, <2>2, <3>1 DEF UploadUrlExpires, Forward, Status, UploadRow, TypeOK
  <2>3. CASE UploadAges(u)
    <3>1. [upload[u] EXCEPT !.aged = TRUE] \in UploadRow
      BY <1>0 DEF UploadRow
    <3> QED
      BY <1>0, <2>3, <3>1 DEF UploadAges, Forward, Status, UploadRow, TypeOK
  <2> QED
    BY <2>1, <2>2, <2>3
<1> QED
  BY <1>0, <1>1, <1>2, SameHandlers, RowStep

\* The three UPDATEs with which the job retires rows.
LEMMA RetiringPreserves ==
  ASSUME AInv, RetireUnlinked \/ ExpireIssued \/ ExpireUploaded
  PROVE  AInv'
<1>0. TypeOK /\ job \in Job /\ \A v \in Uploads : upload[v] \in UploadRow /\ upload[v].deletedAt \in BOOLEAN
  BY DEF AInv, TypeOK, UploadRow
<1>1. UNCHANGED <<blob, links, req, ownerDelete>>
  BY DEF RetireUnlinked, ExpireIssued, ExpireUploaded
<1>2. job' \in Job /\ job'.todo = job.todo
  <2>1. PICK pc \in {"expire_issued", "expire_uploaded", "select"} : job' = [job EXCEPT !.pc = pc]
    BY DEF RetireUnlinked, ExpireIssued, ExpireUploaded
  <2> QED
    BY <1>0, <2>1 DEF Job
<1>3. ASSUME UNCHANGED upload
      PROVE  AInv'
  <2>1. upload' \in [Uploads -> UploadRow] /\ \A u \in Uploads : Forward(u)
    BY <1>0, <1>3 DEF Forward, Status, TypeOK
  <2> QED
    BY <1>1, <1>2, <2>1, SameHandlers, RowStep
<1>4. ASSUME NEW U \in SUBSET Uploads, NEW status \in {"deleted", "expired"}, Retire(U, status),
             \/ \A u \in U : Status(u) \in {"issued", "uploaded"}
             \/ \A u \in U : Status(u) = "attached" /\ ~Linked(u)
      PROVE  AInv'
  <2>1. /\ upload' \in [Uploads -> UploadRow]
        /\ \A u \in Uploads : /\ upload'[u].status = IF u \in U THEN status ELSE Status(u)
                             /\ upload'[u].deletedAt = (upload[u].deletedAt \/ u \in U)
    BY <1>0, <1>4, RetireStep DEF Statuses
  <2>2. ASSUME NEW u \in Uploads
        PROVE  Forward(u)
    <3>1. CASE u \in U
      BY <1>4, <2>1, <3>1 DEF Forward, Retired
    <3>2. CASE u \notin U
      BY <1>0, <2>1, <3>2 DEF Forward
    <3> QED
      BY <3>1, <3>2
  <2> QED
    BY <1>1, <1>2, <2>1, <2>2, SameHandlers, RowStep
<1>5. CASE RetireUnlinked
  <2> DEFINE U == {u \in Uploads : Status(u) = "attached" /\ ~upload[u].deletedAt /\ ~Linked(u)}
  <2>1. Retire(U, "deleted") \/ UNCHANGED upload
    BY <1>5 DEF RetireUnlinked
  <2>2. U \in SUBSET Uploads /\ \A u \in U : Status(u) = "attached" /\ ~Linked(u)
    OBVIOUS
  <2> HIDE DEF U
  <2> QED
    BY <1>3, <1>4, <2>1, <2>2
<1>6. CASE ExpireIssued
  <2> DEFINE U == {u \in Uploads : Status(u) = "issued" /\ upload[u].urlExpired}
  <2>1. Retire(U, "expired") \/ UNCHANGED upload
    BY <1>6 DEF ExpireIssued
  <2>2. U \in SUBSET Uploads /\ \A u \in U : Status(u) \in {"issued", "uploaded"}
    OBVIOUS
  <2> HIDE DEF U
  <2>3. CASE Retire(U, "expired")
    BY <1>4, <2>2, <2>3
  <2> QED
    BY <1>3, <2>1, <2>3
<1>7. CASE ExpireUploaded
  <2> DEFINE U == {u \in Uploads : Status(u) = "uploaded" /\ upload[u].aged}
  <2>1. Retire(U, "expired") \/ UNCHANGED upload
    BY <1>7 DEF ExpireUploaded
  <2>2. U \in SUBSET Uploads /\ \A u \in U : Status(u) \in {"issued", "uploaded"}
    OBVIOUS
  <2> HIDE DEF U
  <2>3. CASE Retire(U, "expired")
    BY <1>4, <2>2, <2>3
  <2> QED
    BY <1>3, <2>1, <2>3
<1> QED
  BY <1>5, <1>6, <1>7

\* A row is a job's record again when its pass moves on.
LEMMA NextRowType ==
  ASSUME NEW T \in SUBSET Uploads
  PROVE  NextRow(T) \in Job /\ NextRow(T).todo = T
BY DEF NextRow, Job

\* The steps of the job that change no row, and the one that marks a row purged.
LEMMA PurgePassPreserves ==
  ASSUME AInv,
         \/ SelectPurgeCandidates
         \/ \E u \in Uploads : PurgeObjectFails(u)
         \/ MarkPurged
         \/ MarkPurgedFails
         \/ JobRestarts
  PROVE  AInv'
<1>0. /\ TypeOK /\ job \in Job /\ job.todo \in SUBSET Uploads
      /\ \A v \in Uploads : upload[v] \in UploadRow
  BY DEF AInv, TypeOK, Job
<1>1. UNCHANGED <<blob, links, req, ownerDelete>>
  BY DEF SelectPurgeCandidates, PurgeObjectFails, MarkPurged, MarkPurgedFails, JobRestarts
<1>2. ASSUME UNCHANGED upload, job' \in Job, job'.todo \subseteq job.todo
      PROVE  AInv'
  <2>1. upload' \in [Uploads -> UploadRow] /\ \A u \in Uploads : Forward(u)
    BY <1>0, <1>2 DEF Forward, Status, TypeOK
  <2> QED
    BY <1>1, <1>2, <2>1, SameHandlers, RowStep
<1>3. CASE SelectPurgeCandidates
  <2>1. PICK T \in SUBSET PurgeCandidates :
          job' = [job EXCEPT !.todo = T, !.pc = IF T = {} THEN "sleep" ELSE "purge"]
    BY <1>3 DEF SelectPurgeCandidates
  <2>2. T \in SUBSET Uploads /\ \A u \in T : upload[u].deletedAt
    BY DEF PurgeCandidates
  <2>3. job' \in Job /\ job'.todo = T
    BY <1>0, <2>1, <2>2 DEF Job
  <2>4. UNCHANGED upload
    BY <1>3 DEF SelectPurgeCandidates
  <2> QED
    BY <1>1, <2>2, <2>3, <2>4
       DEF AInv, TypeOK, RetiredInv, LinkInv, OwnerInv, BlobInv, NoDoubleSpend, Status
<1>4. ASSUME NEW u \in Uploads, PurgeObjectFails(u)
      PROVE  AInv'
  BY <1>0, <1>2, <1>4, NextRowType DEF PurgeObjectFails
<1>5. CASE MarkPurged
  <2>1. job' \in Job /\ job'.todo = job.todo
    BY <1>0, <1>5, NextRowType DEF MarkPurged
  <2>2. upload' = [upload EXCEPT ![job.up] = [upload[job.up] EXCEPT !.purgedAt = TRUE]]
    BY <1>5 DEF MarkPurged
  <2>3. ASSUME NEW u \in Uploads
        PROVE  LET w == [upload[u] EXCEPT !.purgedAt = TRUE] IN
               w \in UploadRow /\ w.status = upload[u].status /\ w.deletedAt = upload[u].deletedAt
    BY <1>0 DEF UploadRow
  <2>4. upload' \in [Uploads -> UploadRow] /\ \A u \in Uploads : Forward(u)
    BY <1>0, <2>2, <2>3 DEF Forward, Status, TypeOK
  <2> QED
    BY <1>0, <1>1, <2>1, <2>4, SameHandlers, RowStep
<1>6. CASE MarkPurgedFails
  BY <1>0, <1>2, <1>6, NextRowType DEF MarkPurgedFails
<1>7. CASE JobRestarts
  BY <1>0, <1>2, <1>7, NextRowType DEF JobRestarts
<1> QED
  BY <1>3, <1>4, <1>5, <1>6, <1>7

\* An object comes, with a PUT, or goes, with a purge of a retired row.
LEMMA ObjectPreserves ==
  ASSUME AInv, NEW u \in Uploads, PutObject(u) \/ PurgeObject(u)
  PROVE  AInv'
<1>0. /\ TypeOK /\ job \in Job /\ job.todo \in SUBSET Uploads
      /\ blob \in [Uploads -> BOOLEAN]
      /\ \A r \in Reqs : req[r].up \in SUBSET Uploads
  BY DEF AInv, TypeOK, Job, Handler
<1>1. CASE PutObject(u)
  <2>1. blob' = [blob EXCEPT ![u] = TRUE] /\ UNCHANGED <<upload, links, req, job, ownerDelete>>
    BY <1>1 DEF PutObject
  <2> QED
    BY <1>0, <2>1 DEF AInv, TypeOK, RetiredInv, LinkInv, OwnerInv, BlobInv, NoDoubleSpend, Status
<1>2. CASE PurgeObject(u)
  <2>1. /\ blob' = [blob EXCEPT ![u] = FALSE] /\ UNCHANGED <<upload, links, req, ownerDelete>>
        /\ u \in job.todo /\ job' = [pc |-> "mark", todo |-> job.todo \ {u}, up |-> u]
    BY <1>2 DEF PurgeObject
  <2>2. job' \in Job /\ job'.todo \subseteq job.todo
    BY <1>0, <2>1 DEF Job
  <2>3. Status(u) \in Retired
    BY <2>1 DEF AInv, RetiredInv
  <2>4. TypeOK' /\ RetiredInv' /\ LinkInv' /\ OwnerInv' /\ NoDoubleSpend'
    BY <1>0, <2>1, <2>2 DEF AInv, TypeOK, RetiredInv, LinkInv, OwnerInv, NoDoubleSpend, Status
  <2>5. BlobInv'
    BY <1>0, <2>1, <2>3 DEF AInv, BlobInv, Status, Retired
  <2> QED
    BY <2>4, <2>5 DEF AInv
<1> QED
  BY <1>1, <1>2

\* The owner's DELETE reaches R2.
LEMMA OwnerDeletePreserves ==
  ASSUME AInv, NEW r \in Reqs, DeleteAttachmentObject(r)
  PROVE  AInv'
<1>0. /\ TypeOK /\ blob \in [Uploads -> BOOLEAN]
      /\ \A s \in Reqs : req[s].up \in SUBSET Uploads
  BY DEF AInv, TypeOK, Handler
<1>1. /\ ownerDelete' = ownerDelete \cup req[r].up
      /\ UNCHANGED <<upload, links, job>>
      /\ \/ blob' = [u \in Uploads |-> IF u \in req[r].up THEN FALSE ELSE blob[u]]
         \/ UNCHANGED blob
  BY DEF DeleteAttachmentObject
<1>2. /\ req' \in [Reqs -> Handler]
      /\ req'[r].pc \in {"delete_update", "delete_update_failed"} /\ req'[r].up = req[r].up
      /\ \A s \in Reqs \ {r} : req'[s] = req[s]
  BY <1>0, GotoStep DEF DeleteAttachmentObject
<1>3. blob' \in [Uploads -> BOOLEAN] /\ \A u \in Uploads : u \notin req[r].up => blob'[u] = blob[u]
  BY <1>0, <1>1
<1>4. TypeOK' /\ RetiredInv' /\ LinkInv' /\ NoDoubleSpend'
  BY <1>0, <1>1, <1>2, <1>3 DEF AInv, TypeOK, RetiredInv, LinkInv, NoDoubleSpend, Status
<1>5. OwnerInv'
  BY <1>1, <1>2 DEF AInv, OwnerInv
<1>6. BlobInv'
  BY <1>0, <1>1, <1>2, <1>3 DEF AInv, BlobInv, Status
<1> QED
  BY <1>4, <1>5, <1>6 DEF AInv

\* A message row goes, with its links.
LEMMA DeleteMessagePreserves ==
  ASSUME AInv, NEW m \in Sends, NEW s \in Sides, DeleteMessage(m, s)
  PROVE  AInv'
<1>1. links' \subseteq links /\ UNCHANGED <<upload, blob, req, job, ownerDelete>>
  BY DEF DeleteMessage
<1>2. TypeOK' /\ RetiredInv' /\ OwnerInv' /\ BlobInv'
  BY <1>1 DEF AInv, TypeOK, RetiredInv, OwnerInv, BlobInv, Status
<1>3. LinkInv' /\ NoDoubleSpend'
  BY <1>1 DEF AInv, LinkInv, NoDoubleSpend, Status
<1> QED
  BY <1>2, <1>3 DEF AInv

\* The transaction of a send: its attachments were 'uploaded', so none of them
\* had a link before.
LEMMA AttachPreserves ==
  ASSUME AInv, NEW r \in Reqs, NEW m \in Sends, NEW S \in SUBSET Sides, AttachInTx(r, m, S)
  PROVE  AInv'
<1> DEFINE U == req[r].up
           new == {m} \X S \X U
<1>0. TypeOK /\ U \in SUBSET Uploads /\ job \in Job /\ job.todo \in SUBSET Uploads
      /\ \A s \in Reqs : req[s].up \in SUBSET Uploads
  BY DEF AInv, TypeOK, Handler, Job
<1>1. /\ \A u \in U : Status(u) = "uploaded"
      /\ links' = links \cup new
      /\ UNCHANGED <<blob, job, ownerDelete>>
  BY DEF AttachInTx
<1>2. req' \in [Reqs -> Handler] /\ \A s \in Reqs : req'[s] = req[s] \/ req'[s] = Idle
  BY <1>0, FinishStep DEF AttachInTx
<1>3. /\ upload' \in [Uploads -> UploadRow]
      /\ \A u \in Uploads : /\ upload'[u].status = IF u \in U THEN "attached" ELSE Status(u)
                            /\ upload'[u].deletedAt = upload[u].deletedAt
  BY <1>0, SetStatusStep DEF AttachInTx, Statuses
<1>4. new \subseteq Sends \X Sides \X Uploads /\ \A l \in new : l[1] = m /\ l[3] \in U
  BY <1>0
<1>5. \A l \in links : l[3] \in Uploads /\ l[3] \notin U
  BY <1>0, <1>1 DEF AInv, LinkInv, TypeOK, Retired
<1> HIDE DEF U, new
<1>6. TypeOK'
  BY <1>0, <1>1, <1>2, <1>3, <1>4 DEF TypeOK
<1>7. RetiredInv'
  BY <1>0, <1>1, <1>3 DEF AInv, RetiredInv, Status, Retired
<1>8. LinkInv'
  <2>1. ASSUME NEW l \in links
        PROVE  /\ upload'[l[3]].status \in {"attached"} \cup Retired
               /\ l[3] \notin ownerDelete => upload'[l[3]].status = "attached"
    BY <1>3, <1>5 DEF AInv, LinkInv
  <2>2. ASSUME NEW l \in new
        PROVE  upload'[l[3]].status = "attached"
    BY <1>0, <1>3, <1>4
  <2> QED
    BY <1>1, <2>1, <2>2 DEF LinkInv, Status
<1>9. OwnerInv'
  BY <1>1, <1>2 DEF AInv, OwnerInv, Idle
<1>10. BlobInv'
  <2>1. \A u \in Uploads : upload'[u].status \in {"uploaded", "attached"} /\ u \notin ownerDelete => blob[u]
    BY <1>0, <1>1, <1>3 DEF AInv, BlobInv
  <2>2. ASSUME NEW s \in Reqs, req'[s].pc = "complete_update", NEW u \in req'[s].up,
               upload'[u].status \in {"none", "issued"}, u \notin ownerDelete
        PROVE  blob[u]
    <3>1. req'[s] = req[s] /\ u \in Uploads
      BY <1>0, <1>2, <2>2 DEF Idle
    <3>2. Status(u) \in {"none", "issued"}
      BY <1>3, <2>2, <3>1
    <3> QED
      BY <2>2, <3>1, <3>2 DEF AInv, BlobInv
  <2> QED
    BY <1>1, <2>1, <2>2 DEF BlobInv, Status
<1>11. NoDoubleSpend'
  <2>1. ASSUME NEW l \in links', NEW k \in links', l[3] = k[3]
        PROVE  l[1] = k[1]
    BY <1>1, <1>4, <1>5, <2>1 DEF AInv, NoDoubleSpend
  <2> QED
    BY <2>1 DEF NoDoubleSpend
<1> QED
  BY <1>6, <1>7, <1>8, <1>9, <1>10, <1>11 DEF AInv

-----------------------------------------------------------------------------
(* The theorems. *)

\* The empty tables.
LEMMA InitAInv == Init => AInv
<1> SUFFICES ASSUME Init PROVE AInv
  OBVIOUS
<1>1. TypeOK
  BY DEF Init, TypeOK, UploadRow, Statuses, Handler, Idle, Job
<1> QED
  BY <1>1 DEF Init, AInv, RetiredInv, LinkInv, OwnerInv, BlobInv, NoDoubleSpend, Status, Idle

\* Every step of every handler, of the job and of the environment.
LEMMA NextAInv == AInv /\ [Next]_vars => AInv'
<1> SUFFICES ASSUME AInv, [Next]_vars PROVE AInv'
  OBVIOUS
<1>1. CASE UNCHANGED vars
  BY <1>1 DEF vars, AInv, TypeOK, RetiredInv, LinkInv, OwnerInv, BlobInv, NoDoubleSpend, Status
<1>2. CASE ClientStep
  <2>1. {"sender"} \in SUBSET Sides /\ Sides \in SUBSET Sides
    BY DEF Sides
  <2> QED
    BY <1>2, <2>1, TimePreserves, ObjectPreserves, DeleteMessagePreserves, ReadsPreserve, AttachPreserves,
       RowUpdatesPreserve, OwnerDeletePreserves DEF ClientStep
<1>3. CASE JobStep
  BY <1>3, RetiringPreserves, PurgePassPreserves, ObjectPreserves DEF JobStep
<1>4. CASE EnvironmentStep
  BY <1>4, ReadsPreserve, PurgePassPreserves, TimePreserves DEF EnvironmentStep
<1> QED
  BY <1>1, <1>2, <1>3, <1>4 DEF Next

\* The inductive invariant holds throughout.
LEMMA Invariance == Spec => []AInv
BY InitAInv, NextAInv, PTL DEF Spec

\* Rows, links, handlers and the job have their types.
THEOREM TypeCorrect == Spec => []TypeOK
<1>1. AInv => TypeOK
  BY DEF AInv
<1> QED
  BY <1>1, Invariance, PTL

\* All links of an upload belong to one send, however many sends that validated
\* it earlier race in mark_attachments_attached_in_tx.
THEOREM NoDoubleSpendAlways == Spec => []NoDoubleSpend
<1>1. AInv => NoDoubleSpend
  BY DEF AInv
<1> QED
  BY <1>1, Invariance, PTL

\* A linked attachment has a download URL and its object, unless its owner's
\* DELETE reached R2, whatever the cleanup job and late completions do.
THEOREM LinkedStaysDownloadable == Spec => []LinkedIsDownloadable
<1>1. AInv => LinkedIsDownloadable
  <2> SUFFICES ASSUME AInv, NEW l \in links, l[3] \notin ownerDelete
               PROVE  DownloadUrlIssued(l[1], l[2], l[3]) /\ blob[l[3]]
    BY DEF LinkedIsDownloadable
  <2>1. l = <<l[1], l[2], l[3]>> /\ l[3] \in Uploads
    BY DEF AInv, TypeOK
  <2>2. Status(l[3]) = "attached"
    BY DEF AInv, LinkInv
  <2> QED
    BY <2>1, <2>2 DEF AInv, BlobInv, DownloadUrlIssued
<1> QED
  BY <1>1, Invariance, PTL

\* No UPDATE takes a row out of its retired statuses: each names the status it
\* expects, or retires the row itself.
LEMMA RetiredStep ==
  ASSUME TypeOK, Next, NEW u \in Uploads, Status(u) \in {"deleted", "expired"}
  PROVE  upload'[u].status \in {"deleted", "expired"}
<1>0. upload[u] \in UploadRow /\ \A r \in Reqs : req[r].up \in SUBSET Uploads
  BY DEF TypeOK, Handler
<1>1. ASSUME UNCHANGED upload
      PROVE  upload'[u].status \in {"deleted", "expired"}
  BY <1>1 DEF Status
<1>2. ASSUME NEW U \in SUBSET Uploads, NEW status \in Statuses, SetStatus(U, status), u \notin U
      PROVE  upload'[u].status \in {"deleted", "expired"}
  BY <1>2, SetStatusStep
<1>3. ASSUME NEW U \in SUBSET Uploads, NEW status \in {"deleted", "expired"}, Retire(U, status)
      PROVE  upload'[u].status \in {"deleted", "expired"}
  BY <1>3, RetireStep DEF Statuses
<1>4. CASE ClientStep
  <2>1. ASSUME NEW v \in Uploads, CreateAttachmentIntent(v)
        PROVE  upload'[u].status \in {"deleted", "expired"}
    BY <1>2, <2>1 DEF CreateAttachmentIntent, Statuses
  <2>2. ASSUME NEW r \in Reqs, NEW m \in Sends, NEW S, AttachInTx(r, m, S)
        PROVE  upload'[u].status \in {"deleted", "expired"}
    BY <1>0, <1>2, <2>2 DEF AttachInTx, Statuses
  <2>3. ASSUME NEW r \in Reqs, CompleteExpired(r)
        PROVE  upload'[u].status \in {"deleted", "expired"}
    <3> DEFINE U == {v \in req[r].up : Status(v) = "issued"}
    <3>1. SetStatus(U, "expired") /\ U \in SUBSET Uploads /\ u \notin U
      BY <1>0, <2>3 DEF CompleteExpired
    <3> QED
      BY <1>2, <3>1 DEF Statuses
  <2>4. ASSUME NEW r \in Reqs, CompleteUpdate(r)
        PROVE  upload'[u].status \in {"deleted", "expired"}
    <3> DEFINE U == {v \in req[r].up : Status(v) = "issued"}
    <3>1. SetStatus(U, "uploaded") /\ U \in SUBSET Uploads /\ u \notin U
      BY <1>0, <2>4 DEF CompleteUpdate
    <3> QED
      BY <1>2, <3>1 DEF Statuses
  <2>5. ASSUME NEW r \in Reqs, DeleteAttachmentUpdate(r)
        PROVE  upload'[u].status \in {"deleted", "expired"}
    BY <1>0, <2>5 DEF DeleteAttachmentUpdate, Status, UploadRow
  <2> QED
    BY <1>1, <1>4, <2>1, <2>2, <2>3, <2>4, <2>5
       DEF ClientStep, PutObject, DeleteMessage, CompleteAttachment, PrevalidateAttachment, DeleteAttachment,
           SendMessage, CompleteHead, DeleteAttachmentObject
<1>5. CASE JobStep
  <2>1. ASSUME RetireUnlinked
        PROVE  upload'[u].status \in {"deleted", "expired"}
    BY <1>1, <1>3, <2>1 DEF RetireUnlinked
  <2>2. ASSUME ExpireIssued
        PROVE  upload'[u].status \in {"deleted", "expired"}
    BY <1>1, <1>3, <2>2 DEF ExpireIssued
  <2>3. ASSUME ExpireUploaded
        PROVE  upload'[u].status \in {"deleted", "expired"}
    BY <1>1, <1>3, <2>3 DEF ExpireUploaded
  <2>4. ASSUME MarkPurged
        PROVE  upload'[u].status \in {"deleted", "expired"}
    BY <1>0, <2>4 DEF MarkPurged, Status, UploadRow, TypeOK
  <2> QED
    BY <1>1, <1>5, <2>1, <2>2, <2>3, <2>4
       DEF JobStep, SelectPurgeCandidates, PurgeObject, PurgeObjectFails, MarkPurgedFails
<1>6. CASE EnvironmentStep
  <2>1. ASSUME NEW v \in Uploads, UploadUrlExpires(v) \/ UploadAges(v)
        PROVE  upload'[u].status \in {"deleted", "expired"}
    BY <1>0, <2>1 DEF UploadUrlExpires, UploadAges, Status, UploadRow, TypeOK
  <2> QED
    BY <1>1, <1>6, <2>1 DEF EnvironmentStep, Cancel, JobRestarts
<1> QED
  BY <1>4, <1>5, <1>6 DEF Next

\* A deleted or expired upload is never usable again, whatever completions,
\* sends and job statements that read its row earlier do next.
THEOREM RetiredStaysRetired == Spec => RetiredIsFinal
<1>1. TypeOK /\ [Next]_vars
        => [\A u \in Uploads : Status(u) \in {"deleted", "expired"}
                                 => upload'[u].status \in {"deleted", "expired"}]_vars
  BY RetiredStep
<1> QED
  BY <1>1, TypeCorrect, PTL DEF Spec, RetiredIsFinal

-----------------------------------------------------------------------------
(***************************************************************************)
(* Compose.  The form may change as it likes; the argument is about the    *)
(* runs, the attachment rows they made and the requests to delete them.    *)
(***************************************************************************)

Pcs == {"idle", "resolving", "next", "intent", "put", "sending", "answered", "sent", "failed",
        "proposing", "proposed"}
Run == [pc : Pcs, todo : SUBSET Files, made : SUBSET Files, cur : Files \union {Undefined, "last"}]
UpStates == {"none", "intent", "uploaded", "attached", "deleted"}

\* What the runs and the server keep.
runs == <<sub, up, deletes, stored, left, deleting, gone, late, raced>>

\* The types of the runs, the rows and the cleanup requests.
RunTypes ==
    /\ sub \in [Submits -> Run] /\ up \in [Submits -> [Files -> UpStates]]
    /\ deletes \subseteq Submits \X Files /\ stored \subseteq Submits
    /\ deleting \subseteq Submits \X Files /\ late \subseteq Submits

\* An upload of a stored message stays linked and keeps its object: no deletion
\* of it is past its check, unless one was when the message was stored.
Kept(s, f) ==
    \/ <<s, f>> \in raced /\ up[s][f] \in {"attached", "deleted"}
    \/ up[s][f] = "attached" /\ <<s, f>> \notin gone /\ <<s, f>> \notin deleting

\* What a run has done so far, by the statement it is at.
RunInv(s) ==
    /\ sub[s].pc \in {"intent", "put"} => sub[s].cur \in Files
    /\ sub[s].pc = "put" => sub[s].cur \in sub[s].made
    /\ sub[s].pc \in {"idle", "resolving", "proposing", "proposed"} => sub[s].made = {}
    /\ sub[s].pc = "answered" => s \in stored
    /\ s \in stored => /\ sub[s].pc \in {"answered", "proposed", "sent", "failed"}
                       /\ \A f \in sub[s].made : Kept(s, f)
    /\ s \in late => sub[s].pc = "failed" /\ s \notin stored

\* A row that is neither linked nor deleted is one that a run at work made, or
\* one somebody was asked to delete, or one that is left behind.
RowInv(s) ==
    \A f \in Files : up[s][f] \in {"intent", "uploaded"} =>
        \/ f \in sub[s].made /\ s \in Active
        \/ <<s, f>> \in deletes \union deleting
        \/ <<s, f>> \in left

\* The inductive invariant.
CInv == RunTypes /\ \A s \in Submits : RunInv(s) /\ RowInv(s)

\* Everything that leaves the runs, the rows and the requests alone.
LEMMA FormPreserves == ASSUME CInv, UNCHANGED runs PROVE CInv'
BY DEF CInv, runs, RunTypes, RunInv, RowInv, Active, Kept

\* A step of one run s: what happens to the others is nothing.
LEMMA RunStep ==
    ASSUME CInv, NEW s \in Submits,
           sub' \in [Submits -> Run], \A t \in Submits \ {s} : sub'[t] = sub[t],
           up' \in [Submits -> [Files -> UpStates]], \A t \in Submits \ {s} : up'[t] = up[t],
           deletes \subseteq deletes', deletes' \subseteq Submits \X Files,
           stored' = stored \/ stored' = stored \union {s}, left \subseteq left',
           UNCHANGED <<deleting, gone>>, raced \subseteq raced',
           late' \subseteq Submits, \A t \in Submits \ {s} : t \in late' <=> t \in late,
           RunInv(s)', RowInv(s)'
    PROVE  CInv'
<1>1. RunTypes'
    BY DEF CInv, RunTypes
<1>2. ASSUME NEW t \in Submits \ {s}
      PROVE  RunInv(t)' /\ RowInv(t)'
    <2>1. /\ sub'[t] = sub[t] /\ up'[t] = up[t] /\ (t \in stored' <=> t \in stored)
          /\ t \in late' <=> t \in late
        BY DEF CInv, RunTypes
    <2>2. RunInv(t) /\ RowInv(t)
        BY DEF CInv
    <2>3. t \in Active <=> t \in Active'
        BY <2>1 DEF Active
    <2> QED
        BY <2>1, <2>2, <2>3 DEF RunInv, RowInv, Kept
<1> QED
    BY <1>1, <1>2 DEF CInv

\* What every step of a run starts from.
LEMMA Types ==
    ASSUME CInv, NEW s \in Submits
    PROVE  /\ RunInv(s) /\ RowInv(s) /\ sub[s] \in Run /\ sub[s].made \in SUBSET Files
           /\ sub[s].todo \in SUBSET Files /\ sub[s].cur \in Files \union {Undefined, "last"}
           /\ up \in [Submits -> [Files -> UpStates]] /\ up[s] \in [Files -> UpStates]
           /\ sub \in [Submits -> Run]
           /\ deletes \subseteq Submits \X Files /\ stored \subseteq Submits
           /\ late \subseteq Submits
BY DEF CInv, RunTypes, Run

\* A run goes on without touching the server.
LEMMA RunGoesOn ==
    ASSUME CInv, NEW s \in Submits, NEW r \in Run, sub' = [sub EXCEPT ![s] = r],
           UNCHANGED <<up, deletes, stored, left, deleting, gone, late, raced>>,
           r.made = sub[s].made, s \notin stored, s \notin late,
           \/ r.pc \in {"resolving", "proposing"} /\ r.made = {}
           \/ r.pc = "next"
           \/ r.pc = "intent" /\ r.cur \in Files
    PROVE  CInv'
<1>0. /\ RunInv(s) /\ RowInv(s) /\ sub[s] \in Run /\ up \in [Submits -> [Files -> UpStates]]
      /\ sub \in [Submits -> Run] /\ deletes \subseteq Submits \X Files /\ late \subseteq Submits
    BY Types
<1>1. sub'[s] = r /\ s \in Active'
    BY <1>0 DEF Active, Ends
<1>2. RunInv(s)'
    BY <1>0, <1>1 DEF RunInv
<1>3. RowInv(s)'
    BY <1>0, <1>1 DEF RowInv
<1> QED
    BY <1>0, <1>2, <1>3, RunStep

\* The submit handler and the propose handler start, the recipient is resolved,
\* a file is taken up.
LEMMA StartsPreserve ==
    ASSUME CInv, NEW s \in Submits,
           Submit(s) \/ Propose(s) \/ Resolved(s) \/ \E f \in Files : Begin(s, f)
    PROVE  CInv'
<1>0. /\ RunInv(s) /\ sub[s] \in Run /\ s \in Submits
      /\ UNCHANGED <<up, deletes, stored, left, deleting, gone, late, raced>>
    BY Types DEF Submit, Propose, Resolved, Begin, server
<1>1. s \notin stored /\ s \notin late
    BY <1>0 DEF RunInv, Submit, Propose, Resolved, Begin
<1>2. CASE Submit(s)
    <2> DEFINE r == [IdleSubmit EXCEPT !.pc = "resolving", !.todo = Attached(files)]
    <2>1. r \in Run /\ r.pc = "resolving" /\ r.made = {} /\ sub[s].made = {}
        BY <1>0, <1>2 DEF Run, Pcs, IdleSubmit, Attached, Submit, RunInv
    <2>2. sub' = [sub EXCEPT ![s] = r]
        BY <1>2 DEF Submit, SetSub
    <2> HIDE DEF r
    <2> QED
        BY <1>0, <1>1, <2>1, <2>2, RunGoesOn
<1>3. CASE Propose(s)
    <2> DEFINE r == [IdleSubmit EXCEPT !.pc = "proposing"]
    <2>1. r \in Run /\ r.pc = "proposing" /\ r.made = {} /\ sub[s].made = {}
        BY <1>0, <1>3 DEF Run, Pcs, IdleSubmit, Propose, RunInv
    <2>2. sub' = [sub EXCEPT ![s] = r]
        BY <1>3 DEF Propose, SetSub
    <2> HIDE DEF r
    <2> QED
        BY <1>0, <1>1, <2>1, <2>2, RunGoesOn
<1>4. CASE Resolved(s)
    <2> DEFINE r == [sub[s] EXCEPT !.pc = "next"]
    <2>1. r \in Run /\ r.pc = "next" /\ r.made = sub[s].made
        BY <1>0 DEF Run, Pcs
    <2>2. sub' = [sub EXCEPT ![s] = r]
        BY <1>4 DEF Resolved, SetSub
    <2> HIDE DEF r
    <2> QED
        BY <1>0, <1>1, <2>1, <2>2, RunGoesOn
<1>5. ASSUME NEW f \in Files, Begin(s, f)
      PROVE  CInv'
    <2> DEFINE r == [sub[s] EXCEPT !.pc = "intent", !.cur = f]
    <2>1. r \in Run /\ r.pc = "intent" /\ r.made = sub[s].made /\ r.cur = f
        BY <1>0 DEF Run, Pcs
    <2>2. sub' = [sub EXCEPT ![s] = r]
        BY <1>5 DEF Begin, SetSub
    <2> HIDE DEF r
    <2> QED
        BY <1>0, <1>1, <2>1, <2>2, RunGoesOn
<1> QED
    BY <1>2, <1>3, <1>4, <1>5

\* The intent and the upload of one file.
LEMMA UploadPreserves ==
    ASSUME CInv, NEW s \in Submits, Intent(s) \/ Uploaded(s)
    PROVE  CInv'
<1>0. /\ RunInv(s) /\ RowInv(s) /\ sub[s] \in Run /\ sub \in [Submits -> Run]
      /\ up \in [Submits -> [Files -> UpStates]] /\ up[s] \in [Files -> UpStates]
      /\ sub[s].made \in SUBSET Files /\ sub[s].todo \in SUBSET Files
      /\ deletes \subseteq Submits \X Files /\ late \subseteq Submits
      /\ UNCHANGED <<deletes, stored, left, deleting, gone, late, raced>>
    BY Types DEF Intent, Uploaded
<1>1. PICK f \in Files : f = sub[s].cur
    BY <1>0 DEF Intent, Uploaded, RunInv
<1>2. PICK v \in {"intent", "uploaded"} : up' = [up EXCEPT ![s] = [up[s] EXCEPT ![f] = v]]
    BY <1>1 DEF Intent, Uploaded
<1>3. /\ up' \in [Submits -> [Files -> UpStates]] /\ \A t \in Submits \ {s} : up'[t] = up[t]
      /\ \A g \in Files \ {f} : up'[s][g] = up[s][g]
    BY <1>0, <1>2 DEF UpStates
<1>4. s \notin stored /\ s \notin late /\ s \in Active
    BY <1>0 DEF RunInv, Intent, Uploaded, Active, Ends
<1>5. ASSUME sub' \in [Submits -> Run], \A t \in Submits \ {s} : sub'[t] = sub[t],
             sub[s].made \subseteq sub'[s].made, f \in sub'[s].made,
             sub'[s].pc = "next" \/ (sub'[s].pc = "put" /\ sub'[s].cur = f)
      PROVE  CInv'
    <2>1. s \in Active'
        BY <1>5 DEF Active, Ends
    <2>2. RunInv(s)'
        BY <1>0, <1>4, <1>5 DEF RunInv
    <2>3. RowInv(s)'
        BY <1>0, <1>3, <1>5, <2>1 DEF RowInv
    <2> QED
        BY <1>0, <1>3, <1>5, <2>2, <2>3, RunStep
<1>6. CASE Intent(s)
    <2> DEFINE r == [sub[s] EXCEPT !.pc = "put", !.made = @ \union {f}]
    <2>1. r \in Run /\ r.pc = "put" /\ r.made = sub[s].made \union {f} /\ r.cur = f
        BY <1>0, <1>1 DEF Run, Pcs
    <2>2. sub' = [sub EXCEPT ![s] = r]
        BY <1>1, <1>6 DEF Intent, SetSub
    <2> HIDE DEF r
    <2> QED
        BY <1>0, <1>5, <2>1, <2>2
<1>7. CASE Uploaded(s)
    <2> DEFINE r == [sub[s] EXCEPT !.pc = "next", !.todo = @ \ {f}, !.cur = Undefined]
    <2>1. r \in Run /\ r.pc = "next" /\ r.made = sub[s].made
        BY <1>0 DEF Run, Pcs
    <2>2. sub' = [sub EXCEPT ![s] = r]
        BY <1>1, <1>7 DEF Uploaded, SetSub
    <2>3. f \in sub[s].made
        BY <1>0, <1>1, <1>7 DEF Uploaded, RunInv
    <2> HIDE DEF r
    <2>4. sub' \in [Submits -> Run] /\ sub'[s] = r /\ \A t \in Submits \ {s} : sub'[t] = sub[t]
        BY <1>0, <2>1, <2>2
    <2>5. sub[s].made \subseteq sub'[s].made /\ f \in sub'[s].made /\ sub'[s].pc = "next"
        BY <2>1, <2>3, <2>4
    <2> QED
        BY <1>5, <2>4, <2>5
<1> QED
    BY <1>6, <1>7

\* The message is stored, its answer arrives; or the proposal's.
LEMMA StoredPreserves ==
    ASSUME CInv, NEW s \in Submits, Store(s) \/ LateStore(s) \/ Sent(s) \/ ProposalStored(s)
    PROVE  CInv'
<1>0. /\ RunInv(s) /\ RowInv(s) /\ sub[s] \in Run /\ sub \in [Submits -> Run]
      /\ up \in [Submits -> [Files -> UpStates]] /\ up[s] \in [Files -> UpStates]
      /\ sub[s].made \in SUBSET Files
      /\ deletes \subseteq Submits \X Files /\ late \subseteq Submits
      /\ UNCHANGED <<deletes, left, deleting, gone>>
    BY Types DEF Store, LateStore, LinkUploads, Sent, ProposalStored, server
<1>1. ASSUME LinkUploads(s), sub' \in [Submits -> Run], \A t \in Submits \ {s} : sub'[t] = sub[t],
             sub'[s].made = sub[s].made, sub'[s].pc \in {"answered", "failed"},
             late' \subseteq Submits, \A t \in Submits \ {s} : t \in late' <=> t \in late,
             s \notin late'
      PROVE  CInv'
    <2> DEFINE us == [f \in Files |-> IF f \in sub[s].made THEN "attached" ELSE up[s][f]]
    <2>2. us \in [Files -> UpStates]
        BY <1>0 DEF UpStates
    <2>3. /\ up' = [up EXCEPT ![s] = us] /\ stored' = stored \union {s}
          /\ raced \subseteq raced'
        BY <1>1 DEF LinkUploads
    <2>4. \A f \in Files : us[f] = IF f \in sub[s].made THEN "attached" ELSE up[s][f]
        OBVIOUS
    <2>8. \A f \in Files : <<s, f>> \in deleting \union gone => <<s, f>> \in raced'
        BY <1>1 DEF LinkUploads
    <2> HIDE DEF us
    <2>5. /\ up' \in [Submits -> [Files -> UpStates]] /\ \A t \in Submits \ {s} : up'[t] = up[t]
          /\ up'[s] = us
        BY <1>0, <2>2, <2>3
    <2>9. \A f \in sub'[s].made : Kept(s, f)'
        BY <1>0, <1>1, <2>4, <2>5, <2>8 DEF Kept
    <2>6. RunInv(s)'
        BY <1>0, <1>1, <2>3, <2>9 DEF RunInv
    <2>7. RowInv(s)'
        BY <1>0, <1>1, <2>4, <2>5 DEF RowInv, Active, Ends
    <2> QED
        BY <1>0, <1>1, <2>3, <2>5, <2>6, <2>7, RunStep
<1>4. CASE Store(s)
    <2> DEFINE r == [sub[s] EXCEPT !.pc = "answered"]
    <2>1. r \in Run /\ r.pc = "answered" /\ r.made = sub[s].made
        BY <1>0 DEF Run, Pcs
    <2>2. sub' = [sub EXCEPT ![s] = r] /\ UNCHANGED late /\ sub[s].pc = "sending" /\ LinkUploads(s)
        BY <1>4 DEF Store, SetSub
    <2>3. s \notin late
        BY <1>0, <2>2 DEF RunInv
    <2> HIDE DEF r
    <2> QED
        BY <1>0, <1>1, <2>1, <2>2, <2>3
<1>5. CASE LateStore(s)
    <2>1. UNCHANGED sub /\ late' = late \ {s} /\ sub[s].pc = "failed"
        BY <1>0, <1>5 DEF LateStore, RunInv
    <2>2. CASE LinkUploads(s)
        BY <1>0, <1>1, <2>1, <2>2
    <2>3. CASE UNCHANGED <<up, stored, raced>>
        <3>1. RunInv(s)'
            BY <1>0, <2>1, <2>3 DEF RunInv, Kept
        <3>2. RowInv(s)'
            BY <1>0, <2>1, <2>3 DEF RowInv, Active
        <3> QED
            BY <1>0, <2>1, <2>3, <3>1, <3>2, RunStep
    <2> QED
        BY <1>5, <2>2, <2>3 DEF LateStore
<1>2. CASE Sent(s)
    <2> DEFINE r == [sub[s] EXCEPT !.pc = "sent", !.cur = Undefined]
    <2>1. r \in Run /\ r.pc = "sent" /\ r.made = sub[s].made
        BY <1>0 DEF Run, Pcs
    <2>2. sub' = [sub EXCEPT ![s] = r] /\ UNCHANGED <<up, stored, late, raced>> /\ sub[s].pc = "answered"
        BY <1>2 DEF Sent, SetSub, server
    <2> HIDE DEF r
    <2>3. sub'[s] = r /\ s \in stored
        BY <1>0, <2>2 DEF RunInv
    <2>4. RunInv(s)'
        BY <1>0, <2>1, <2>2, <2>3 DEF RunInv, Kept
    <2>5. RowInv(s)'
        BY <1>0, <2>1, <2>2, <2>3 DEF RowInv, RunInv, Kept
    <2> QED
        BY <1>0, <2>1, <2>2, <2>4, <2>5, RunStep
<1>3. CASE ProposalStored(s)
    <2> DEFINE r == [sub[s] EXCEPT !.pc = "proposed"]
    <2>1. r \in Run /\ r.pc = "proposed" /\ r.made = sub[s].made
        BY <1>0 DEF Run, Pcs
    <2>2. sub' = [sub EXCEPT ![s] = r] /\ UNCHANGED <<up, late, raced>> /\ stored' = stored \union {s}
          /\ sub[s].pc = "proposing"
        BY <1>3 DEF ProposalStored, SetSub
    <2> HIDE DEF r
    <2>3. sub'[s] = r /\ sub[s].made = {}
        BY <1>0, <2>2 DEF RunInv
    <2>4. RunInv(s)'
        BY <1>0, <2>1, <2>2, <2>3 DEF RunInv
    <2>5. RowInv(s)'
        BY <1>0, <2>2, <2>3 DEF RowInv
    <2> QED
        BY <1>0, <2>1, <2>2, <2>4, <2>5, RunStep
<1> QED
    BY <1>2, <1>3, <1>4, <1>5

\* A run ends although nothing was sent, or nobody knows: the catch block asks
\* for the deletion of every intent; without a key they are left behind.
LEMMA FailuresPreserve ==
    ASSUME CInv, NEW s \in Submits,
           SubmitFails(s) \/ IntentAnswerLost(s) \/ SignFails(s) \/ ProposeEnds(s)
    PROVE  CInv'
<1>0. /\ RunInv(s) /\ RowInv(s) /\ sub[s] \in Run /\ sub \in [Submits -> Run]
      /\ up \in [Submits -> [Files -> UpStates]] /\ up[s] \in [Files -> UpStates]
      /\ sub[s].made \in SUBSET Files
      /\ deletes \subseteq Submits \X Files /\ late \subseteq Submits
      /\ UNCHANGED <<stored, deleting, gone, raced>>
    BY Types DEF SubmitFails, IntentAnswerLost, SignFails, ProposeEnds, Catch, server
<1>2. /\ late' = late \/ (late' = late \union {s} /\ sub[s].pc \in {"sending", "proposing"})
      /\ s \notin late
    BY <1>0 DEF SubmitFails, IntentAnswerLost, SignFails, ProposeEnds, MayBeLate, server, RunInv
<1>1. /\ sub' \in [Submits -> Run] /\ \A t \in Submits \ {s} : sub'[t] = sub[t]
      /\ sub'[s].made = sub[s].made
      /\ sub'[s].pc = "failed" \/ (sub'[s].pc = "sent" /\ sub[s].pc = "proposed")
    <2> DEFINE e(pc) == [sub[s] EXCEPT !.pc = pc]
               c == [sub[s] EXCEPT !.pc = "failed", !.cur = Undefined]
    <2>1. /\ e("failed") \in Run /\ e("failed").made = sub[s].made /\ e("failed").pc = "failed"
          /\ e("sent") \in Run /\ e("sent").made = sub[s].made /\ e("sent").pc = "sent"
        BY <1>0 DEF Run, Pcs
    <2>2. c \in Run /\ c.made = sub[s].made /\ c.pc = "failed"
        BY <1>0 DEF Run, Pcs
    <2>3. \/ sub' = [sub EXCEPT ![s] = c]
          \/ sub' = [sub EXCEPT ![s] = e("failed")]
          \/ sub' = [sub EXCEPT ![s] = e("sent")] /\ sub[s].pc = "proposed"
        BY DEF SubmitFails, IntentAnswerLost, Catch, SignFails, ProposeEnds, SetSub
    <2> HIDE DEF c, e
    <2>4. CASE sub' = [sub EXCEPT ![s] = c]
        BY <1>0, <2>2, <2>4
    <2>5. CASE sub' = [sub EXCEPT ![s] = e("failed")]
        BY <1>0, <2>1, <2>5
    <2>6. CASE sub' = [sub EXCEPT ![s] = e("sent")] /\ sub[s].pc = "proposed"
        BY <1>0, <2>1, <2>6
    <2> QED
        BY <2>3, <2>4, <2>5, <2>6
<1>3. /\ up' \in [Submits -> [Files -> UpStates]] /\ \A t \in Submits \ {s} : up'[t] = up[t]
      /\ UNCHANGED up \/ s \notin stored
      /\ \A f \in Files : up'[s][f] = up[s][f] \/ <<s, f>> \in left'
    <2>1. CASE UNCHANGED up
        BY <1>0, <2>1
    <2>2. CASE IntentAnswerLost(s)
        <3>1. PICK f \in Files : f = sub[s].cur
            BY <1>0, <2>2 DEF IntentAnswerLost, RunInv
        <3>2. up' = [up EXCEPT ![s] = [up[s] EXCEPT ![f] = "intent"]] /\ <<s, f>> \in left'
            BY <2>2, <3>1 DEF IntentAnswerLost
        <3>3. s \notin stored
            BY <1>0, <2>2 DEF IntentAnswerLost, RunInv
        <3> QED
            BY <1>0, <3>2, <3>3 DEF UpStates
    <2> QED
        BY <2>1, <2>2 DEF SubmitFails, SignFails, ProposeEnds, server
<1>4. /\ deletes \subseteq deletes' /\ deletes' \subseteq Submits \X Files /\ left \subseteq left'
      /\ \A f \in sub[s].made : <<s, f>> \in deletes' \/ <<s, f>> \in left'
    <2>1. CASE SubmitFails(s) \/ IntentAnswerLost(s)
        BY <1>0, <2>1 DEF SubmitFails, IntentAnswerLost, Catch, Cleanup
    <2>2. CASE SignFails(s)
        BY <1>0, <2>2 DEF SignFails
    <2>3. CASE ProposeEnds(s)
        BY <1>0, <2>3 DEF ProposeEnds, RunInv
    <2> QED
        BY <2>1, <2>2, <2>3
<1>7. s \in late' => sub'[s].pc = "failed" /\ s \notin stored'
    BY <1>0, <1>1, <1>2 DEF RunInv
<1>8. \A f \in sub[s].made : Kept(s, f) /\ s \in stored => Kept(s, f)'
    BY <1>0, <1>3 DEF Kept
<1>5. RunInv(s)'
    BY <1>0, <1>1, <1>7, <1>8 DEF RunInv
<1>6. RowInv(s)'
    BY <1>0, <1>1, <1>3, <1>4 DEF RowInv
<1> QED
    BY <1>0, <1>1, <1>2, <1>3, <1>4, <1>5, <1>6, RunStep

\* The send mutation of a run starts, and takes the place of an earlier one in
\* the page's state.
LEMMA SignPreserves ==
    ASSUME CInv, NEW s \in Submits, Sign(s)
    PROVE  CInv'
<1> DEFINE a(r) == [sub[r] EXCEPT !.pc = "sending", !.cur = "last"]
           b(r) == [sub[r] EXCEPT !.cur = Undefined]
<1>0. /\ RunTypes /\ UNCHANGED <<up, deletes, stored, left, deleting, gone, late, raced>>
      /\ sub[s].pc = "next"
    BY DEF CInv, Sign, server
<1>1. sub' = [r \in Submits |-> IF r = s THEN a(r) ELSE IF sub[r].cur = "last" THEN b(r) ELSE sub[r]]
    BY DEF Sign
<1>2. ASSUME NEW r \in Submits
      PROVE  /\ a(r) \in Run /\ a(r).pc = "sending" /\ a(r).made = sub[r].made
             /\ b(r) \in Run /\ b(r).pc = sub[r].pc /\ b(r).made = sub[r].made
             /\ sub[r] \in Run /\ RunInv(r) /\ RowInv(r)
    BY <1>0 DEF RunTypes, Run, Pcs, CInv
<1> HIDE DEF a, b
<1>3. RunTypes'
    BY <1>0, <1>1, <1>2 DEF RunTypes
<1>4. ASSUME NEW r \in Submits
      PROVE  RunInv(r)' /\ RowInv(r)'
    <2>1. CASE r = s
        <3>1. sub'[r].pc = "sending" /\ sub'[r].made = sub[r].made /\ r \in Active'
            BY <1>1, <1>2, <2>1 DEF Active, Ends
        <3> QED
            BY <1>0, <1>2, <2>1, <3>1 DEF RunInv, RowInv
    <2>2. CASE r # s
        <3>1. /\ sub'[r].pc = sub[r].pc /\ sub'[r].made = sub[r].made
              /\ sub[r].cur \in Files => sub'[r].cur = sub[r].cur
            BY <1>1, <1>2, <2>2, ComposeAssumption
        <3>2. r \in Active <=> r \in Active'
            BY <3>1 DEF Active
        <3> QED
            BY <1>0, <1>2, <3>1, <3>2 DEF RunInv, RowInv, Kept
    <2> QED
        BY <2>1, <2>2
<1> QED
    BY <1>3, <1>4 DEF CInv

\* A step of the deletion d: the other rows keep their state.
LEMMA DeletionStep ==
    ASSUME CInv, NEW s \in Submits, NEW f \in Files, NEW d, d = <<s, f>>,
           UNCHANGED <<sub, stored, late, raced>>,
           up' \in [Submits -> [Files -> UpStates]],
           \A t \in Submits, g \in Files : <<t, g>> # d => up'[t][g] = up[t][g],
           deletes' \subseteq deletes, deleting' \subseteq Submits \X Files, left \subseteq left',
           \A e : e # d => (e \in deletes' <=> e \in deletes),
           \A e : e # d => (e \in deleting' <=> e \in deleting),
           \A e : e # d => (e \in gone' <=> e \in gone),
           \/ up'[s][f] \notin {"intent", "uploaded"}
           \/ d \in deletes' \union deleting' \union left',
           s \in stored /\ f \in sub[s].made => Kept(s, f)'
    PROVE  CInv'
<1>1. RunTypes /\ RunTypes'
    BY DEF CInv, RunTypes
<1>2. ASSUME NEW t \in Submits
      PROVE  RunInv(t)' /\ RowInv(t)'
    <2>1. RunInv(t) /\ RowInv(t) /\ sub[t].made \subseteq Files
        BY <1>1 DEF CInv, RunTypes, Run
    <2>2. ASSUME NEW g \in sub[t].made, t \in stored
          PROVE  Kept(t, g)'
        <3>1. CASE <<t, g>> = d
            BY <3>1, <2>2
        <3>2. CASE <<t, g>> # d
            BY <2>1, <2>2, <3>2 DEF Kept, RunInv
        <3> QED
            BY <3>1, <3>2
    <2>3. RunInv(t)'
        BY <2>1, <2>2 DEF RunInv
    <2>4. ASSUME NEW g \in Files, up'[t][g] \in {"intent", "uploaded"}
          PROVE  \/ g \in sub'[t].made /\ t \in Active'
                 \/ <<t, g>> \in deletes' \union deleting'
                 \/ <<t, g>> \in left'
        <3>1. CASE <<t, g>> = d
            BY <2>4, <3>1
        <3>2. CASE <<t, g>> # d
            BY <2>1, <2>4, <3>2 DEF RowInv, Active
        <3> QED
            BY <3>1, <3>2
    <2>5. RowInv(t)'
        BY <2>4 DEF RowInv
    <2> QED
        BY <2>3, <2>5
<1> QED
    BY <1>1, <1>2 DEF CInv

\* A cleanup request reads its row, and spares what is linked; the object and
\* then the row are deleted; or a statement fails.
LEMMA CleanupPreserves ==
    ASSUME CInv, NEW d \in deletes \union deleting,
           DeleteChecked(d) \/ ObjectDeleted(d) \/ Deleted(d) \/ DeleteFails(d)
    PROVE  CInv'
<1>0. RunTypes /\ UNCHANGED <<sub, stored, late, raced>>
    BY DEF CInv, DeleteChecked, ObjectDeleted, Deleted, DeleteFails
<1>1. PICK s \in Submits, f \in Files : d = <<s, f>>
    BY <1>0 DEF RunTypes
<1>2. /\ up[s] \in [Files -> UpStates] /\ up \in [Submits -> [Files -> UpStates]]
      /\ deletes \subseteq Submits \X Files /\ deleting \subseteq Submits \X Files
      /\ RowInv(s) /\ d \in Submits \X Files
    BY <1>0, <1>1 DEF RunTypes, CInv
<1>3. s \in stored /\ f \in sub[s].made => Kept(s, f)
    BY DEF CInv, RunInv
<1>4. CASE DeleteChecked(d)
    <2>1. /\ UNCHANGED <<up, gone, left>> /\ deletes' = deletes \ {d}
          /\ deleting' = IF up[s][f] \in {"attached", "deleted"} THEN deleting
                         ELSE deleting \union {d}
        BY <1>1, <1>4 DEF DeleteChecked
    <2>2. s \in stored /\ f \in sub[s].made => Kept(s, f)'
        BY <1>1, <1>3, <1>0, <2>1 DEF Kept
    <2>3. up'[s][f] \notin {"intent", "uploaded"} \/ d \in deleting'
        BY <2>1
    <2> QED
        BY <1>0, <1>1, <1>2, <2>1, <2>2, <2>3, DeletionStep
<1>5. CASE ObjectDeleted(d)
    <2>1. /\ UNCHANGED <<up, left, deletes, deleting>> /\ gone' = gone \union {d} /\ d \in deleting
        BY <1>5 DEF ObjectDeleted
    <2>2. s \in stored /\ f \in sub[s].made => Kept(s, f)'
        BY <1>1, <1>3, <1>0, <2>1 DEF Kept
    <2> QED
        BY <1>0, <1>1, <1>2, <2>1, <2>2, DeletionStep
<1>6. CASE Deleted(d)
    <2>1. /\ UNCHANGED <<left, deletes, gone>> /\ deleting' = deleting \ {d} /\ d \in deleting
          /\ up' = [up EXCEPT ![s] = [up[s] EXCEPT ![f] = "deleted"]]
        BY <1>1, <1>6 DEF Deleted
    <2>2. /\ up' \in [Submits -> [Files -> UpStates]] /\ up'[s][f] = "deleted"
          /\ \A t \in Submits, g \in Files : <<t, g>> # d => up'[t][g] = up[t][g]
        BY <1>1, <1>2, <2>1 DEF UpStates
    <2>3. s \in stored /\ f \in sub[s].made => Kept(s, f)'
        BY <1>1, <1>3, <1>0, <2>1, <2>2 DEF Kept
    <2> QED
        BY <1>0, <1>1, <1>2, <2>1, <2>2, <2>3, DeletionStep
<1>7. CASE DeleteFails(d)
    <2>1. /\ UNCHANGED <<up, gone>> /\ deletes' = deletes \ {d} /\ deleting' = deleting \ {d}
          /\ left' = left \union {d}
        BY <1>7 DEF DeleteFails
    <2>2. s \in stored /\ f \in sub[s].made => Kept(s, f)'
        BY <1>1, <1>3, <1>0, <2>1 DEF Kept
    <2> QED
        BY <1>0, <1>1, <1>2, <2>1, <2>2, DeletionStep
<1> QED
    BY <1>4, <1>5, <1>6, <1>7

-----------------------------------------------------------------------------
(* The theorems. *)

\* An empty form, no run.
LEMMA InitCInv == ComposeInit => CInv
<1> SUFFICES ASSUME ComposeInit PROVE CInv
    OBVIOUS
<1>1. IdleSubmit \in Run /\ IdleSubmit.pc = "idle" /\ IdleSubmit.made = {}
    BY DEF IdleSubmit, Run, Pcs
<1>2. RunTypes
    BY <1>1 DEF ComposeInit, RunTypes, UpStates
<1>3. ASSUME NEW s \in Submits
      PROVE  RunInv(s) /\ RowInv(s)
    BY <1>1 DEF ComposeInit, RunInv, RowInv
<1> QED
    BY <1>2, <1>3 DEF CInv

\* Every step of the user, the runs, the promises and the failures.
LEMMA NextCInv == CInv /\ [ComposeNext]_composeVars => CInv'
<1> SUFFICES ASSUME CInv, [ComposeNext]_composeVars PROVE CInv'
    OBVIOUS
<1>1. CASE UNCHANGED composeVars
    BY <1>1, FormPreserves DEF composeVars, runs, server
<1>2. CASE User
    <2>1. CASE EditSubject \/ EditBody \/ Clear \/ AskDraft \/ EditSlots
        BY <2>1, FormPreserves DEF EditSubject, EditBody, Clear, AskDraft, EditSlots, runs, server
    <2>2. ASSUME NEW f \in Files, ChooseFile(f) \/ RemoveFile(f)
          PROVE  CInv'
        BY <2>2, FormPreserves DEF ChooseFile, RemoveFile, runs, server
    <2> QED
        BY <1>2, <2>1, <2>2, StartsPreserve DEF User
<1>3. ASSUME NEW s \in Submits, Step(s)
      PROVE  CInv'
    BY <1>3, StartsPreserve, UploadPreserves, SignPreserves, StoredPreserves, FailuresPreserve DEF Step
<1>4. CASE Background
    <2>1. CASE OriginalLoaded \/ Prefill \/ DraftArrives
        BY <2>1, FormPreserves DEF OriginalLoaded, Prefill, DraftArrives, runs, server
    <2>2. ASSUME NEW f \in Files, NEW ok \in BOOLEAN, FileRead(f, ok)
          PROVE  CInv'
        BY <2>2, FormPreserves DEF FileRead, runs, server
    <2> QED
        BY <1>4, <2>1, <2>2, CleanupPreserves, StoredPreserves DEF Background
<1>5. CASE Failures
    <2>1. CASE DraftFails
        BY <2>1, FormPreserves DEF DraftFails, runs, server
    <2> QED
        BY <1>5, <2>1, CleanupPreserves DEF Failures
<1> QED
    BY <1>1, <1>2, <1>3, <1>4, <1>5 DEF ComposeNext

\* The inductive invariant holds throughout.
LEMMA SubmitInvariance == ComposeSpec => []CInv
BY InitCInv, NextCInv, PTL DEF ComposeSpec

\* The catch block of a run whose send failed or whose answer was lost asks for
\* the deletion of attachments of a message that may be stored: they stay linked
\* and keep their objects, unless the deletion read the row before the store.
THEOREM CleanupNeverTakesSent == ComposeSpec => []CleanupSparesSent
<1>1. CInv => CleanupSparesSent
    BY DEF CInv, RunTypes, RunInv, Kept, CleanupSparesSent
<1> QED
    BY <1>1, SubmitInvariance, PTL

\* No attachment row of a run is forgotten by the page unless a key was missing,
\* an id was lost or a delete failed.
THEOREM IntentsAreAccounted == ComposeSpec => []IntentsAccounted
<1>1. CInv => IntentsAccounted
    BY DEF CInv, RowInv, IntentsAccounted
<1> QED
    BY <1>1, SubmitInvariance, PTL
=============================================================================
