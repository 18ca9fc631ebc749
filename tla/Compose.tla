---- MODULE Compose ----
(***************************************************************************)
(* Writing a message: the compose page with its reply prefill, AI draft,   *)
(* attachment pipeline and submit handler (compose/page.tsx), the page     *)
(* that proposes meeting slots (compose/propose/page.tsx), and the         *)
(* attachment rows the pipeline leaves on the server.                      *)
(*                                                                         *)
(* A submit is one run of the asynchronous handler: it keeps the form's    *)
(* values of the click while the form goes on changing.                    *)
(***************************************************************************)
EXTENDS A2A

CONSTANTS
    Files,       \* files the user may attach
    Submits,     \* runs of the submit handler
    Slots,       \* candidate lists the propose form may hold
    MaxCount,    \* MAX_ATTACHMENT_COUNT
    MaxEdits,    \* bound: edits of the form
    MaxFaults    \* bound: failed requests

VARIABLES
    page,               \* "new", "reply" or "propose"
    original,           \* the message being answered: waiting, loaded or filled in
    subject, body, edited,      \* the text fields and bodyEdited
    files, reading,     \* attachments of the form, files still being read
    message,            \* readinessMessage, as last computed
    draft,              \* the AI draft: idle, asking, done, error or no_key
    sub,                \* the runs of the handler
    up,                 \* attachment rows of each run on the server
    deletes,            \* cleanup requests on their way
    deleting,           \* deletions that found their row not linked
    gone,               \* uploads whose object was deleted
    late,               \* runs that gave up a send which the server may still store
    stored,             \* the runs whose message the server stored
    pending, slots,     \* the propose page
    edits, faults,
    left,               \* history: uploads whose cleanup failed or was never asked
    raced               \* history: uploads linked while their deletion was under way

form == <<subject, body, edited, files, reading, message>>
server == <<up, stored, deleting, gone, late, raced>>
composeVars == <<page, original, form, draft, sub, deletes, server, pending, slots, edits, faults, left>>

\* "last" marks a run (IsPending), it is no file.
ASSUME ComposeAssumption ==
    /\ MaxCount \in Nat /\ \A s \in Slots : s \in Seq([start : Nat, end : Nat])
    /\ "last" \notin Files

IdleSubmit == [pc |-> "idle", todo |-> {}, made |-> {}, cur |-> Undefined]
Ends == {"idle", "sent", "failed"}
Active == {s \in Submits : sub[s].pc \notin Ends}

\* The one blank row the propose form starts with and returns to.
EmptyRows == <<[start |-> 0, end |-> 0]>>

ComposeInit ==
    /\ page \in {"new", "reply", "propose"}
    /\ original = (IF page = "reply" THEN "waiting" ELSE "none")
    /\ subject = "" /\ body = "" /\ edited = FALSE
    /\ files = [f \in Files |-> "none"] /\ reading = {}
    /\ message = "subject" /\ draft = "idle"
    /\ sub = [s \in Submits |-> IdleSubmit] /\ up = [s \in Submits |-> [f \in Files |-> "none"]]
    /\ deletes = {} /\ stored = {} /\ deleting = {} /\ gone = {} /\ late = {} /\ raced = {}
    /\ pending = FALSE /\ slots = EmptyRows
    /\ edits = 0 /\ faults = 0 /\ left = {}

Fault == faults < MaxFaults /\ faults' = faults + 1
Edit  == edits < MaxEdits /\ edits' = edits + 1

(* ------------------------------- the form ------------------------------- *)

Attached(fs) == {f \in Files : fs[f] # "none"}

\* The first reason not to send.
Readiness ==
    IF subject = "" THEN "subject"
    ELSE IF body = "" THEN "body"
    ELSE IF \E f \in Files : files[f] = "uploading" THEN "uploading"
    ELSE ""

\* The memo of readinessMessage: computed again when a text or the total size
\* changed.  The status of the attachments is not among its dependencies.
Memo ==
    message' = IF subject' # subject \/ body' # body \/ Attached(files') # Attached(files)
               THEN Readiness' ELSE message

\* isPending of the send mutation covers the last request only.
IsPending == \E s \in Submits : sub[s].pc \in {"sending", "answered"} /\ sub[s].cur = "last"

CanSubmit == message = "" /\ ~IsPending

EditSubject ==
    /\ page # "propose" /\ Edit /\ subject' = "typed"
    /\ UNCHANGED <<body, edited, files, reading>> /\ Memo
    /\ UNCHANGED <<page, original, draft, sub, deletes, server, pending, slots, faults, left>>

EditBody ==
    /\ page # "propose" /\ Edit /\ body' \in {"user1", "user2"} \ {body} /\ edited' = TRUE
    /\ UNCHANGED <<subject, files, reading>> /\ Memo
    /\ UNCHANGED <<page, original, draft, sub, deletes, server, pending, slots, faults, left>>

Clear ==
    /\ page # "propose" /\ ~IsPending /\ Edit
    /\ body' = "" /\ files' = [f \in Files |-> "none"]
    /\ UNCHANGED <<subject, edited, reading>> /\ Memo
    /\ UNCHANGED <<page, original, draft, sub, deletes, server, pending, slots, faults, left>>

\* handleFilesChosen: the count is checked before the file is read.
ChooseFile(f) ==
    /\ page # "propose" /\ Edit /\ files[f] = "none" /\ f \notin reading
    /\ Cardinality(Attached(files)) + 1 <= MaxCount
    /\ reading' = reading \union {f}
    /\ UNCHANGED <<page, original, subject, body, edited, files, message, draft, sub, deletes,
                   server, pending, slots, faults, left>>

FileRead(f, ok) ==
    /\ f \in reading /\ reading' = reading \ {f}
    /\ files' = IF ok THEN [files EXCEPT ![f] = "ready"] ELSE files
    /\ UNCHANGED <<subject, body, edited>> /\ Memo
    /\ UNCHANGED <<page, original, draft, sub, deletes, server, pending, slots, edits, faults, left>>

RemoveFile(f) ==
    /\ files[f] # "none" /\ Edit /\ files' = [files EXCEPT ![f] = "none"]
    /\ UNCHANGED <<subject, body, edited, reading>> /\ Memo
    /\ UNCHANGED <<page, original, draft, sub, deletes, server, pending, slots, faults, left>>

(* ------------------------- reply prefill and draft ---------------------- *)

OriginalLoaded ==
    /\ original = "waiting" /\ original' = "loaded"
    /\ UNCHANGED <<page, form, draft, sub, deletes, server, pending, slots, edits, faults, left>>

\* The subject of the original is decrypted: it fills an empty field only.
Prefill ==
    /\ original = "loaded" /\ original' = "filled"
    /\ subject' = IF subject = "" THEN "Re:" ELSE subject
    /\ UNCHANGED <<body, edited, files, reading>> /\ Memo
    /\ UNCHANGED <<page, draft, sub, deletes, server, pending, slots, edits, faults, left>>

\* The first draft of a reply waits for no edit; later ones are asked for with
\* a button, and confirmed by the user if the body was edited.
AskDraft ==
    /\ page = "reply" /\ original # "waiting"
    /\ \/ draft = "idle" /\ ~edited /\ UNCHANGED edits
       \/ draft \in {"done", "error"} /\ Edit
    /\ draft' = "asking"
    /\ UNCHANGED <<page, original, form, sub, deletes, server, pending, slots, faults, left>>

\* The text replaces the body, also one typed since the draft was asked for.
DraftArrives ==
    /\ draft = "asking" /\ draft' = "done" /\ body' = "draft" /\ edited' = FALSE
    /\ UNCHANGED <<subject, files, reading>> /\ Memo
    /\ UNCHANGED <<page, original, sub, deletes, server, pending, slots, edits, faults, left>>

\* No key is stored, or the provider's answer is an error.
DraftFails ==
    /\ draft = "asking" /\ draft' \in {"no_key", "error"} /\ Fault
    /\ UNCHANGED <<page, original, form, sub, deletes, server, pending, slots, edits, left>>

(* ------------------------------- submit --------------------------------- *)

SetSub(s, r) == sub' = [sub EXCEPT ![s] = r]

Submit(s) ==
    /\ page # "propose" /\ CanSubmit
    /\ sub[s].pc = "idle" /\ Edit
    /\ SetSub(s, [IdleSubmit EXCEPT !.pc = "resolving", !.todo = Attached(files)])
    /\ UNCHANGED <<page, original, form, draft, deletes, server, pending, slots, faults, left>>

\* The recipient is resolved, the body encrypted.
Resolved(s) ==
    /\ sub[s].pc = "resolving" /\ SetSub(s, [sub[s] EXCEPT !.pc = "next"])
    /\ UNCHANGED <<page, original, form, draft, deletes, server, pending, slots, edits, faults, left>>

\* The next file of the list is encrypted; then createAttachmentIntent.
Begin(s, f) ==
    /\ sub[s].pc = "next" /\ f \in sub[s].todo
    /\ SetSub(s, [sub[s] EXCEPT !.pc = "intent", !.cur = f])
    /\ files' = [files EXCEPT ![f] = IF @ = "none" THEN @ ELSE "uploading"]
    /\ UNCHANGED <<subject, body, edited, reading>> /\ Memo
    /\ UNCHANGED <<page, original, draft, deletes, server, pending, slots, edits, faults, left>>

Intent(s) ==
    /\ sub[s].pc = "intent"
    /\ SetSub(s, [sub[s] EXCEPT !.pc = "put", !.made = @ \union {sub[s].cur}])
    /\ up' = [up EXCEPT ![s][sub[s].cur] = "intent"]
    /\ UNCHANGED <<page, original, form, draft, deletes, stored, deleting, gone, late, raced, pending, slots, edits,
                   faults, left>>

\* Mutant: the loop does not move on from an uploaded file.
UploadedForgets(s) ==
    /\ sub[s].pc = "put" /\ UNCHANGED sub
    /\ up' = [up EXCEPT ![s][sub[s].cur] = "uploaded"]
    /\ files' = [files EXCEPT ![sub[s].cur] = IF @ = "none" THEN @ ELSE "uploaded"]
    /\ UNCHANGED <<subject, body, edited, reading>> /\ Memo
    /\ UNCHANGED <<page, original, draft, deletes, stored, deleting, gone, late, raced, pending, slots, edits,
                   faults, left>>

\* The PUT to storage, then completeAttachment.
Uploaded(s) ==
    /\ sub[s].pc = "put"
    /\ SetSub(s, [sub[s] EXCEPT !.pc = "next", !.todo = @ \ {sub[s].cur}, !.cur = Undefined])
    /\ up' = [up EXCEPT ![s][sub[s].cur] = "uploaded"]
    /\ files' = [files EXCEPT ![sub[s].cur] = IF @ = "none" THEN @ ELSE "uploaded"]
    /\ UNCHANGED <<subject, body, edited, reading>> /\ Memo
    /\ UNCHANGED <<page, original, draft, deletes, stored, deleting, gone, late, raced, pending, slots, edits,
                   faults, left>>

\* The envelope is signed and the send mutation started.
Sign(s) ==
    /\ sub[s].pc = "next" /\ sub[s].todo = {}
    /\ sub' = [r \in Submits |-> IF r = s THEN [sub[r] EXCEPT !.pc = "sending", !.cur = "last"]
                                 ELSE IF sub[r].cur = "last" THEN [sub[r] EXCEPT !.cur = Undefined]
                                 ELSE sub[r]]
    /\ UNCHANGED <<page, original, form, draft, deletes, server, pending, slots, edits, faults, left>>

\* The recipient has no usable key, or getSigningPrivateKey found none: the
\* handler returns, the intents stay.
SignFails(s) ==
    /\ (sub[s].pc = "resolving" \/ (sub[s].pc = "next" /\ sub[s].todo = {})) /\ Fault
    /\ SetSub(s, [sub[s] EXCEPT !.pc = "failed"])
    /\ left' = left \union {<<s, f>> : f \in sub[s].made}
    /\ UNCHANGED <<page, original, form, draft, deletes, server, pending, slots, edits>>

\* The transaction that stores the message links its uploads, every one of
\* which must be "uploaded".
LinkUploads(s) ==
    /\ \A f \in sub[s].made : up[s][f] = "uploaded"
    /\ stored' = stored \union {s}
    /\ up' = [up EXCEPT ![s] = [f \in Files |-> IF f \in sub[s].made THEN "attached" ELSE @[f]]]
    /\ raced' = raced \union {d \in deleting \union gone : d[1] = s}
    /\ UNCHANGED <<page, original, form, draft, deletes, deleting, gone, pending, slots, edits,
                   faults, left>>

Store(s) ==
    /\ sub[s].pc = "sending" /\ SetSub(s, [sub[s] EXCEPT !.pc = "answered"])
    /\ LinkUploads(s) /\ UNCHANGED late

\* The send of a run that gave up goes on in the server.  It is refused if one
\* of its uploads has been deleted; the object is looked up before the
\* transaction, so one that is gone is refused or comes too late for that.
LateStore(s) ==
    /\ s \in late /\ late' = late \ {s} /\ UNCHANGED sub
    /\ \/ LinkUploads(s)
       \/ /\ \E f \in sub[s].made : up[s][f] # "uploaded" \/ <<s, f>> \in gone
          /\ UNCHANGED <<page, original, form, draft, up, stored, raced, deletes, deleting, gone,
                         pending, slots, edits, faults, left>>

\* Success wipes the body and the attachments of the form of this moment.
Sent(s) ==
    /\ sub[s].pc = "answered" /\ SetSub(s, [sub[s] EXCEPT !.pc = "sent", !.cur = Undefined])
    /\ body' = "" /\ files' = [f \in Files |-> "none"]
    /\ UNCHANGED <<subject, edited, reading>> /\ Memo
    /\ UNCHANGED <<page, original, draft, deletes, server, pending, slots, edits, faults, left>>

\* Mutant: the catch block only reports the error.
CleanupNone(s) == UNCHANGED deletes

\* Best-effort DELETE of every intent of the run.
Cleanup(s) == deletes' = deletes \union {<<s, f>> : f \in sub[s].made}

\* The catch block: the error is shown and the intents are given back.
Catch(s) ==
    /\ SetSub(s, [sub[s] EXCEPT !.pc = "failed", !.cur = Undefined])
    /\ files' = [f \in Files |-> IF files[f] = "uploading" THEN "failed" ELSE files[f]]
    /\ Cleanup(s)
    /\ UNCHANGED <<subject, body, edited, reading>> /\ Memo
    /\ UNCHANGED <<page, original, draft, stored, deleting, gone, raced, pending, slots, edits>>

\* A request that fails for the page may still be under way in the server.
MayBeLate(s, pc) == late' \in {late} \union (IF sub[s].pc = pc THEN {late \union {s}} ELSE {})

\* Any request of the run fails, or its answer is lost.
SubmitFails(s) ==
    /\ sub[s].pc \in {"resolving", "intent", "put", "sending", "answered"}
    /\ Fault /\ Catch(s) /\ MayBeLate(s, "sending") /\ UNCHANGED <<up, left>>

\* The server made the row, and its id never reached the page.
IntentAnswerLost(s) ==
    /\ sub[s].pc = "intent" /\ Fault /\ Catch(s) /\ UNCHANGED late
    /\ up' = [up EXCEPT ![s][sub[s].cur] = "intent"] /\ left' = left \union {<<s, sub[s].cur>>}

\* Mutant: the server deletes whatever it is asked to.
DeleteCheckedNot(d) ==
    /\ d \in deletes /\ deletes' = deletes \ {d} /\ deleting' = deleting \union {d}
    /\ UNCHANGED <<page, original, form, draft, sub, up, stored, gone, late, raced, pending, slots,
                   edits, faults, left>>

\* DELETE /attachments/:id reads the row: one that is linked, or deleted
\* already, is let alone.
DeleteChecked(d) ==
    /\ d \in deletes /\ deletes' = deletes \ {d}
    /\ deleting' = IF up[d[1]][d[2]] \in {"attached", "deleted"} THEN deleting
                   ELSE deleting \union {d}
    /\ UNCHANGED <<page, original, form, draft, sub, up, stored, gone, late, raced, pending, slots,
                   edits, faults, left>>

\* Then the object is deleted, best effort.
ObjectDeleted(d) ==
    /\ d \in deleting \ gone /\ gone' = gone \union {d}
    /\ UNCHANGED <<page, original, form, draft, sub, deletes, up, stored, deleting, late, raced,
                   pending, slots, edits, faults, left>>

\* The last UPDATE, whose WHERE does not name the status.
Deleted(d) ==
    /\ d \in deleting /\ deleting' = deleting \ {d}
    /\ up' = [up EXCEPT ![d[1]][d[2]] = "deleted"]
    /\ UNCHANGED <<page, original, form, draft, sub, deletes, stored, gone, late, raced, pending,
                   slots, edits, faults, left>>

\* The DELETE is lost, or one of its statements fails: the page ignores it, the
\* server's job will find the row.
DeleteFails(d) ==
    /\ d \in deletes \union deleting /\ Fault
    /\ deletes' = deletes \ {d} /\ deleting' = deleting \ {d} /\ left' = left \union {d}
    /\ UNCHANGED <<page, original, form, draft, sub, up, stored, gone, late, raced, pending, slots,
                   edits>>

(* --------------------------- the propose page --------------------------- *)

ProposalBlock == Block(Schedule, "propose", TRUE, slots, Undefined, Undefined)

EditSlots ==
    /\ page = "propose" /\ Edit /\ slots' \in Slots \ {slots}
    /\ UNCHANGED <<page, original, form, draft, sub, deletes, server, pending, faults, left>>

\* onSubmit: rows and payload are validated, then pending disables the button.
Propose(s) ==
    /\ page = "propose" /\ ~pending /\ sub[s].pc = "idle" /\ Edit
    /\ ValidateCandidateRows(slots) /\ AssertValidA2APayload(ProposalBlock)
    /\ pending' = TRUE /\ SetSub(s, [IdleSubmit EXCEPT !.pc = "proposing"])
    /\ UNCHANGED <<page, original, form, draft, deletes, server, slots, faults, left>>

ProposalStored(s) ==
    /\ sub[s].pc = "proposing" /\ SetSub(s, [sub[s] EXCEPT !.pc = "proposed"])
    /\ stored' = stored \union {s}
    /\ UNCHANGED <<page, original, form, draft, deletes, up, deleting, gone, late, raced, pending, slots,
                   edits, faults, left>>

\* Success empties the form; either way pending ends.
ProposeEnds(s) ==
    /\ pending' = FALSE
    /\ \/ /\ sub[s].pc = "proposed" /\ SetSub(s, [sub[s] EXCEPT !.pc = "sent"])
          /\ slots' = EmptyRows /\ UNCHANGED <<faults, late>>
       \/ /\ sub[s].pc \in {"proposing", "proposed"} /\ SetSub(s, [sub[s] EXCEPT !.pc = "failed"])
          /\ Fault /\ MayBeLate(s, "proposing") /\ UNCHANGED slots
    /\ UNCHANGED <<page, original, form, draft, deletes, up, stored, deleting, gone, raced, edits,
                   left>>

(* ---------------------------- specification ----------------------------- *)

User ==
    \/ EditSubject \/ EditBody \/ Clear \/ AskDraft \/ EditSlots
    \/ \E f \in Files : ChooseFile(f) \/ RemoveFile(f)
    \/ \E s \in Submits : Submit(s) \/ Propose(s)

Step(s) ==
    \/ Resolved(s) \/ (\E f \in Files : Begin(s, f)) \/ Intent(s) \/ Uploaded(s) \/ Sign(s)
    \/ Store(s) \/ Sent(s) \/ ProposalStored(s) \/ ProposeEnds(s)
    \/ SubmitFails(s) \/ IntentAnswerLost(s) \/ SignFails(s)

Background ==
    \/ OriginalLoaded \/ Prefill \/ DraftArrives
    \/ \E f \in Files, ok \in BOOLEAN : FileRead(f, ok)
    \/ \E s \in Submits : LateStore(s)
    \/ \E d \in deletes : DeleteChecked(d)
    \/ \E d \in deleting : ObjectDeleted(d) \/ Deleted(d)

Failures == DraftFails \/ \E d \in deletes \union deleting : DeleteFails(d)

ComposeNext == User \/ (\E s \in Submits : Step(s)) \/ Background \/ Failures

\* Requests are answered, one way or the other, and promises resolve.
ComposeFairness == (\A s \in Submits : WF_composeVars(Step(s))) /\ WF_composeVars(Background)

ComposeSpec == ComposeInit /\ [][ComposeNext]_composeVars /\ ComposeFairness

(* ------------------------------ properties ------------------------------ *)

ComposeTypeOK ==
    /\ page \in {"new", "reply", "propose"} /\ edited \in BOOLEAN /\ pending \in BOOLEAN
    /\ subject \in {"", "typed", "Re:"} /\ body \in {"", "user1", "user2", "draft"}
    /\ files \in [Files -> {"none", "ready", "uploading", "uploaded", "failed"}]
    /\ message \in {"", "subject", "body", "uploading"}
    /\ up \in [Submits -> [Files -> {"none", "intent", "uploaded", "attached", "deleted"}]]
    /\ (pending <=> \E s \in Submits : sub[s].pc \in {"proposing", "proposed"})

\* The cleanup of a run whose send failed, or whose answer was lost, never takes
\* an attachment or its object from the message the server did store, unless
\* the send was stored after the deletion had read the row.
CleanupSparesSent ==
    \A s \in stored : \A f \in sub[s].made :
        <<s, f>> \in raced \/ (up[s][f] = "attached" /\ <<s, f>> \notin gone)

\* Every attachment row a run made is linked, deleted, about to be, still in
\* use by the run, or left behind by a missing key, a lost id or a failed delete.
IntentsAccounted ==
    \A s \in Submits, f \in Files :
        up[s][f] \in {"intent", "uploaded"} =>
            s \in Active \/ <<s, f>> \in deletes \union deleting \union left

\* Every submit ends.
SubmitEnds == \A s \in Submits : s \in Active ~> s \notin Active

====
