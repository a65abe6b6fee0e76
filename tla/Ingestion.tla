----------------------------- MODULE Ingestion -----------------------------
(***************************************************************************)
(* Document ingestion of one workspace in one API process: file uploads    *)
(* (app/routes/upload.py), web and YouTube connectors                      *)
(* (app/routes/connectors.py), the media background task, the quota checks *)
(* they share, the workspace status they are gated on, and process death.  *)
(*                                                                         *)
(* A request creates at most one document, so the request names the row.   *)
(* Uploads run on the event loop (async def) and do not yield after the    *)
(* body is read; connectors and background tasks run in the thread pool.   *)
(* A database transaction becomes visible in the step that commits it. No  *)
(* handler touches the database again after its last commit, so the        *)
(* response is part of that step: a death between the two loses it.        *)
(***************************************************************************)
EXTENDS Naturals, FiniteSets, SequencesExt

CONSTANTS
    Uploads,         \* requests to POST .../documents/upload
    Connectors,      \* requests to POST .../connectors/ingest
    AsyncMedia,      \* uploads for which _should_process_media_async holds
    Faulty,          \* requests that may meet an error no handler expects
    Size,            \* Size[u]: bytes of upload u
    MaxUploadSize,   \* settings.max_upload_size_bytes
    Plans,           \* the plan catalogue
    DocumentsLimit,  \* DocumentsLimit[p]: documents_limit of plan p
    StorageLimit,    \* StorageLimit[p]: storage_bytes_limit of plan p
    LargestLimit,    \* no plan allows more documents than this
    Threads,         \* capacity of the server's thread pool
    MaxCrashes,      \* bound on process deaths
    NoRequest

Requests == Uploads \cup Connectors

ASSUME RequestsAssumption ==
    /\ Uploads \cap Connectors = {}
    /\ AsyncMedia \subseteq Uploads
    /\ Faulty \subseteq Requests
    /\ NoRequest \notin Requests
ASSUME SizeAssumption == Size \in [Uploads -> Nat] /\ MaxUploadSize \in Nat
ASSUME PlanAssumption ==
    /\ DocumentsLimit \in [Plans -> Nat]
    /\ StorageLimit \in [Plans -> Nat]
    /\ LargestLimit \in Nat
    /\ \A p \in Plans : DocumentsLimit[p] <= LargestLimit
ASSUME ServerAssumption == Threads \in Nat \ {0} /\ MaxCrashes \in Nat

VARIABLES
    wsStatus,   \* workspaces.status
    plan,       \* workspace_subscriptions.plan_name
    pc,         \* where the request's handler or background task is
    http,       \* the response the client got, "none" before
    loop,       \* the upload holding the event loop, or NoRequest
    seen,       \* the plan a handler read when it built its limit policy
    stored,     \* uploads whose bytes are in the upload storage
    doc,        \* documents.status, "absent" before the row exists
    job,        \* ingestion_jobs.status, "absent" before the row exists
    chunks,     \* chunks[r]: the document's chunk rows are committed
    usage,      \* usage[r]: metrics of the usage events about the document
    audited,    \* connectors with an ingestion.connector_ingested event
    crashes

vars == <<wsStatus, plan, pc, http, loop, seen, stored, doc, job, chunks,
          usage, audited, crashes>>

files    == <<stored>>
rows     == <<doc, job, chunks, usage, audited>>
tenant   == <<wsStatus, plan>>

WorkspaceStatuses == {"active", "pending_deletion", "deleted"}
Metrics         == {"upload.bytes", "document.count", "chunk.count", "chunk.tokens"}
Codes           == {"201", "400", "403", "410", "413", "422", "429", "500"}
Locations       == {"idle", "gated", "dispatched", "policy", "storage_ok",
                    "admitted", "saved", "recording", "bg_queued",
                    "extracting", "flushed", "done"}

-----------------------------------------------------------------------------
(* Derived state.                                                          *)

Live(r) == pc[r] \notin {"idle", "done"}

(* Rows current_document_count counts: every status but "failed".          *)
Counted == {r \in Requests : doc[r] \in {"processing", "indexed"}}

(* The bytes of the uploads in a set, added up in any order.               *)
BytesOf(S) ==
    LET order == SetToSeq(Uploads)
        upTo[n \in 0..Cardinality(Uploads)] ==
            IF n = 0 THEN 0
            ELSE upTo[n - 1] + IF order[n] \in S THEN Size[order[n]] ELSE 0
    IN  upTo[Cardinality(Uploads)]

(* current_storage_bytes: only uploads have a document_files row.          *)
StoredBytes == BytesOf(Counted)

AttemptedBytes(r) == IF r \in Uploads THEN Size[r] ELSE 0

(* The background task of an upload whose client was answered long ago.    *)
InBackground(r) == r \in AsyncMedia /\ pc[r] \in {"extracting", "flushed"}

(* Handlers and background tasks occupying a thread of the pool.           *)
InPool == {c \in Connectors : Live(c) /\ pc[c] # "gated"}
          \cup {u \in AsyncMedia : InBackground(u)}

(* Handlers past both quota checks whose document is not committed yet.    *)
Admitted == {r \in Requests : pc[r] \in {"admitted", "saved"}}

Init ==
    /\ wsStatus = "active"
    /\ plan \in Plans
    /\ pc = [r \in Requests |-> "idle"]
    /\ http = [r \in Requests |-> "none"]
    /\ loop = NoRequest
    /\ seen = [r \in Requests |-> plan]
    /\ stored = {}
    /\ doc = [r \in Requests |-> "absent"]
    /\ job = [r \in Requests |-> "absent"]
    /\ chunks = [r \in Requests |-> FALSE]
    /\ usage = [r \in Requests |-> {}]
    /\ audited = {}
    /\ crashes = 0

Goto(r, l) == pc' = [pc EXCEPT ![r] = l]

(* The handler ends; an upload that ran on the event loop gives it back.   *)
Release(r) == loop' = IF loop = r THEN NoRequest ELSE loop

Respond(r, code) == http' = [http EXCEPT ![r] = code]

Finish(r, code) == Goto(r, "done") /\ Respond(r, code) /\ Release(r)

-----------------------------------------------------------------------------
(* The tenant dependency, run before the handler. The status is not looked *)
(* at again.                                                               *)
Gate(r) ==
    /\ pc[r] = "idle"
    /\ \/ wsStatus = "active" /\ Goto(r, "gated") /\ UNCHANGED <<http, loop>>
       \/ wsStatus = "pending_deletion" /\ Finish(r, "403")
       \/ wsStatus = "deleted" /\ Finish(r, "410")
    /\ UNCHANGED <<tenant, seen, files, rows, crashes>>

(* A file whose type is not supported, or that is empty, or too large.     *)
RejectUpload(u) ==
    /\ pc[u] = "gated" /\ loop = NoRequest
    /\ \/ Finish(u, "400")
       \/ Size[u] > MaxUploadSize /\ Finish(u, "413")
    /\ UNCHANGED <<tenant, seen, files, rows, crashes>>

(* Mutant: a plain def handler, which shares the thread pool.              *)
BeginUploadInThread(u) ==
    /\ pc[u] = "gated"
    /\ Size[u] \in 1..MaxUploadSize
    /\ seen' = [seen EXCEPT ![u] = plan]
    /\ Goto(u, "policy")
    /\ UNCHANGED <<tenant, http, loop, files, rows, crashes>>

(* The body is read: from here the coroutine keeps the event loop. The     *)
(* quota service reads the subscription first.                             *)
BeginUpload(u) ==
    /\ pc[u] = "gated" /\ loop = NoRequest
    /\ Size[u] \in 1..MaxUploadSize
    /\ loop' = u
    /\ seen' = [seen EXCEPT ![u] = plan]
    /\ Goto(u, "policy")
    /\ UNCHANGED <<tenant, http, files, rows, crashes>>

(* The event loop hands a connector request to a thread of the pool.       *)
DispatchConnector(c) ==
    /\ pc[c] = "gated" /\ loop = NoRequest
    /\ Cardinality(InPool) < Threads
    /\ Goto(c, "dispatched")
    /\ UNCHANGED <<tenant, http, loop, seen, files, rows, crashes>>

BeginConnector(c) ==
    /\ pc[c] = "dispatched"
    /\ seen' = [seen EXCEPT ![c] = plan]
    /\ Goto(c, "policy")
    /\ UNCHANGED <<tenant, http, loop, files, rows, crashes>>

(* QuotaService.assert_can_upload: two queries, so two steps.              *)
CheckStorage(r) ==
    /\ pc[r] = "policy"
    /\ IF StoredBytes + AttemptedBytes(r) > StorageLimit[seen[r]]
       THEN Finish(r, "429")
       ELSE Goto(r, "storage_ok") /\ UNCHANGED <<http, loop>>
    /\ UNCHANGED <<tenant, seen, files, rows, crashes>>

(* Mutant: the limit is compared with what is there, not what will be.     *)
CheckDocumentsOffByOne(r) ==
    /\ pc[r] = "storage_ok"
    /\ IF Cardinality(Counted) > DocumentsLimit[seen[r]]
       THEN Finish(r, "429")
       ELSE Goto(r, "admitted") /\ UNCHANGED <<http, loop>>
    /\ UNCHANGED <<tenant, seen, files, rows, crashes>>

CheckDocuments(r) ==
    /\ pc[r] = "storage_ok"
    /\ IF Cardinality(Counted) + 1 > DocumentsLimit[seen[r]]
       THEN Finish(r, "429")
       ELSE Goto(r, "admitted") /\ UNCHANGED <<http, loop>>
    /\ UNCHANGED <<tenant, seen, files, rows, crashes>>

(* storage.save_bytes, before the transaction with the rows commits.       *)
SaveBytes(u) ==
    /\ pc[u] = "admitted"
    /\ stored' = stored \cup {u}
    /\ Goto(u, "saved")
    /\ UNCHANGED <<tenant, http, loop, seen, rows, crashes>>

(* Mutant: the document is metered when it is created.                     *)
CommitRowsMetered(r) ==
    /\ pc[r] = IF r \in Uploads THEN "saved" ELSE "admitted"
    /\ doc' = [doc EXCEPT ![r] = "processing"]
    /\ job' = [job EXCEPT ![r] = "processing"]
    /\ usage' = [usage EXCEPT ![r] = {"document.count"}]
    /\ Goto(r, IF r \in AsyncMedia THEN "recording" ELSE "extracting")
    /\ UNCHANGED <<tenant, http, loop, seen, files, chunks, audited, crashes>>

(* The first commit: document, job and, for an upload, its file row.       *)
CommitRows(r) ==
    /\ pc[r] = IF r \in Uploads THEN "saved" ELSE "admitted"
    /\ doc' = [doc EXCEPT ![r] = "processing"]
    /\ job' = [job EXCEPT ![r] = "processing"]
    /\ Goto(r, IF r \in AsyncMedia THEN "recording" ELSE "extracting")
    /\ UNCHANGED <<tenant, http, loop, seen, files, chunks, usage, audited, crashes>>

(* An asynchronous media upload: usage is committed, the task is handed to *)
(* the server and the client is answered before any text exists.           *)
AcceptMedia(u) ==
    /\ pc[u] = "recording"
    /\ usage' = [usage EXCEPT ![u] = @ \cup {"upload.bytes", "document.count"}]
    /\ Goto(u, "bg_queued") /\ Respond(u, "201") /\ Release(u)
    /\ UNCHANGED <<tenant, seen, files, doc, job, chunks, audited, crashes>>

StartBackground(u) ==
    /\ pc[u] = "bg_queued" /\ loop = NoRequest
    /\ Cardinality(InPool) < Threads
    /\ Goto(u, "extracting")
    /\ UNCHANGED <<tenant, http, loop, seen, files, rows, crashes>>

-----------------------------------------------------------------------------
(* Extraction, chunking and the second transaction.                        *)

(* Text was extracted and chunked; the chunk rows are flushed into the     *)
(* open transaction, which nobody else sees.                               *)
FlushChunks(r) ==
    /\ pc[r] = "extracting"
    /\ Goto(r, "flushed")
    /\ UNCHANGED <<tenant, http, loop, seen, files, rows, crashes>>

(* The usage events of the transaction that makes a document usable: those *)
(* of an asynchronous upload were partly recorded when it was accepted.    *)
SuccessMetrics(r) ==
    {"chunk.count", "chunk.tokens"}
    \cup (IF r \in AsyncMedia THEN {} ELSE {"document.count"})
    \cup (IF r \in Uploads \ AsyncMedia THEN {"upload.bytes"} ELSE {})

CommitSuccess(r) ==
    /\ pc[r] = "flushed"
    /\ chunks' = [chunks EXCEPT ![r] = TRUE]
    /\ doc' = [doc EXCEPT ![r] = "indexed"]
    /\ job' = [job EXCEPT ![r] = "succeeded"]
    /\ usage' = [usage EXCEPT ![r] = @ \cup SuccessMetrics(r)]
    /\ audited' = IF r \in Connectors THEN audited \cup {r} ELSE audited
    /\ Finish(r, "201")
    /\ UNCHANGED <<tenant, seen, files, crashes>>

(* Mutants: the failure is committed without a rollback first; the job is  *)
(* given a status no handler uses.                                         *)
MarkFailedNoRollback(r) ==
    /\ chunks' = [chunks EXCEPT ![r] = (pc[r] = "flushed")]
    /\ job' = [job EXCEPT ![r] = "failed"]
    /\ doc' = [doc EXCEPT ![r] = "failed"]
MarkFailedCancels(r) ==
    /\ chunks' = chunks
    /\ job' = [job EXCEPT ![r] = "cancelled"]
    /\ doc' = [doc EXCEPT ![r] = "failed"]

(* Roll back what the transaction flushed, then commit the failure: the    *)
(* job first, then its document.                                           *)
MarkFailed(r) ==
    /\ chunks' = chunks
    /\ job' = [job EXCEPT ![r] = "failed"]
    /\ doc' = [doc EXCEPT ![r] = "failed"]

(* Mutant: the failure is flushed but never committed.                     *)
FailUploadUncommitted(u) ==
    /\ u \notin AsyncMedia /\ pc[u] = "extracting"
    /\ Finish(u, "422")
    /\ UNCHANGED <<tenant, seen, files, rows, crashes>>

(* Synchronous upload: the loader raised ExtractionError, before any row.  *)
FailUpload(u) ==
    /\ u \notin AsyncMedia /\ pc[u] = "extracting"
    /\ MarkFailed(u)
    /\ Finish(u, "422")
    /\ UNCHANGED <<tenant, seen, files, usage, audited, crashes>>

(* Mutants: the task swallows the exception; it fails the job, then tries  *)
(* again.                                                                  *)
FailBackgroundSilently(u) ==
    /\ InBackground(u)
    /\ Goto(u, "done")
    /\ UNCHANGED <<tenant, http, loop, seen, files, rows, crashes>>
FailBackgroundRetries(u) ==
    /\ InBackground(u)
    /\ MarkFailed(u)
    /\ Goto(u, "extracting")
    /\ UNCHANGED <<tenant, http, loop, seen, files, usage, audited, crashes>>

(* Background task: any exception is caught, whatever was flushed.         *)
FailBackground(u) ==
    /\ InBackground(u)
    /\ MarkFailed(u)
    /\ Goto(u, "done")
    /\ UNCHANGED <<tenant, http, loop, seen, files, usage, audited, crashes>>

(* Connector: a URL that is refused or has no transcript (400), a fetch    *)
(* that failed or gave no text, or text that cannot be stored (422).       *)
FailConnector(c) ==
    /\ \/ pc[c] = "extracting" /\ \E code \in {"400", "422"} : Finish(c, code)
       \/ pc[c] = "flushed" /\ Finish(c, "422")
    /\ MarkFailed(c)
    /\ UNCHANGED <<tenant, seen, files, usage, audited, crashes>>

(* An error no except clause names (storage, database, a third-party       *)
(* parser): the session is closed without a commit and the client gets a   *)
(* 500. A background task catches every error, but what its except clause  *)
(* does with the database can fail as well; then nothing is committed.     *)
Uncaught(r) ==
    /\ r \in Faulty
    /\ pc[r] \in {"policy", "storage_ok", "admitted", "saved", "recording",
                  "extracting", "flushed"}
    /\ \/ ~InBackground(r) /\ Finish(r, "500")
       \/ InBackground(r) /\ Goto(r, "done") /\ UNCHANGED <<http, loop>>
    /\ UNCHANGED <<tenant, seen, files, rows, crashes>>

-----------------------------------------------------------------------------
(* The environment.                                                        *)

(* Billing: a manager changes the plan, up or down.                        *)
SetPlan ==
    /\ \E p \in Plans \ {plan} : plan' = p
    /\ UNCHANGED <<wsStatus, pc, http, loop, seen, files, rows, crashes>>

(* Compliance: an owner's request changes the status. All that is assumed  *)
(* is what WorkspaceStatus says, which WorkspaceLifecycle implements.      *)
Lifecycle == INSTANCE WorkspaceStatus WITH status <- wsStatus

ChangeStatus ==
    /\ Lifecycle!Leave
    /\ UNCHANGED <<plan, pc, http, loop, seen, files, rows, crashes>>

(* The process dies and restarts: handlers, queued background tasks and    *)
(* open transactions are gone, the database and the files remain.          *)
Crash ==
    /\ crashes < MaxCrashes
    /\ crashes' = crashes + 1
    /\ pc' = [r \in Requests |-> IF Live(r) THEN "done" ELSE pc[r]]
    /\ loop' = NoRequest
    /\ UNCHANGED <<tenant, http, seen, files, rows>>

UploadStep(u) ==
    \/ RejectUpload(u) \/ BeginUpload(u) \/ SaveBytes(u) \/ AcceptMedia(u)
    \/ StartBackground(u) \/ FailUpload(u) \/ FailBackground(u)

ConnectorStep(c) == DispatchConnector(c) \/ BeginConnector(c) \/ FailConnector(c)

CommonStep(r) ==
    \/ Gate(r) \/ CheckStorage(r) \/ CheckDocuments(r) \/ CommitRows(r)
    \/ FlushChunks(r) \/ CommitSuccess(r) \/ Uncaught(r)

Next ==
    \/ \E u \in Uploads : UploadStep(u)
    \/ \E c \in Connectors : ConnectorStep(c)
    \/ \E r \in Requests : CommonStep(r)
    \/ SetPlan \/ ChangeStatus \/ Crash

Spec == Init /\ [][Next]_vars

(* The thread pool and the event loop run what they were given; clients    *)
(* need not send a request, nor owners or the process do anything.         *)
Progress(r) ==
    /\ Live(r)
    /\ \/ CheckStorage(r) \/ CheckDocuments(r) \/ CommitRows(r)
       \/ FlushChunks(r) \/ CommitSuccess(r) \/ Uncaught(r)
       \/ r \in Uploads /\ UploadStep(r)
       \/ r \in Connectors /\ ConnectorStep(r)

Fairness == \A r \in Requests : WF_vars(Progress(r))

FairSpec == Spec /\ Fairness
-----------------------------------------------------------------------------
(* Properties.                                                             *)

(* Every variable stays in its range; only an upload holds the event loop. *)
TypeOK ==
    /\ wsStatus \in WorkspaceStatuses
    /\ plan \in Plans
    /\ pc \in [Requests -> Locations]
    /\ http \in [Requests -> Codes \cup {"none"}]
    /\ loop \in Uploads \cup {NoRequest}
    /\ seen \in [Requests -> Plans]
    /\ stored \subseteq Uploads
    /\ doc \in [Requests -> {"absent", "processing", "indexed", "failed"}]
    /\ job \in [Requests -> {"absent", "processing", "succeeded", "failed"}]
    /\ chunks \in [Requests -> BOOLEAN]
    /\ usage \in [Requests -> SUBSET Metrics]
    /\ audited \subseteq Connectors
    /\ crashes \in 0..MaxCrashes

(* The document quota is checked and consumed in different transactions,   *)
(* so concurrent handlers can exceed it. They can by at most the number of *)
(* threads: documents committed and documents about to be, together, never *)
(* outnumber the largest plan's limit by more than the pool's capacity.    *)
DocumentOvershootBounded ==
    Cardinality(Counted \cup Admitted) <= LargestLimit + Threads

(* The storage quota is exact: an upload keeps the event loop from its     *)
(* check to its commit and only uploads store bytes, so a commit that adds *)
(* bytes leaves the total within the plan the handler read.                *)
StorageWithinPlan ==
    [][\A u \in Uploads :
          doc[u] = "absent" /\ doc'[u] # "absent"
              => StoredBytes' <= StorageLimit[seen[u]]]_vars

(* What the client was told is what the database says: a refused request   *)
(* left nothing that counts against the quota, a failed ingestion is       *)
(* recorded as failed on both rows, success means the chunks are there.    *)
ResponseMatchesRecord ==
    \A r \in Requests :
        /\ http[r] \in {"403", "410", "413", "429"} => doc[r] = "absent"
        /\ http[r] = "400" => doc[r] = IF r \in Uploads THEN "absent" ELSE "failed"
        /\ http[r] = "422" => doc[r] = "failed" /\ job[r] = "failed"
        /\ http[r] = "201" => \/ chunks[r] /\ doc[r] = "indexed"
                              \/ r \in AsyncMedia /\ doc[r] # "absent"

(* Chunks are visible exactly for indexed documents with a succeeded job,  *)
(* and every committed upload has its bytes in storage, whichever step     *)
(* failed or was cut short by the process dying.                           *)
RecordsAgree ==
    \A r \in Requests :
        /\ doc[r] = "indexed" <=> job[r] = "succeeded"
        /\ doc[r] = "failed" <=> job[r] = "failed"
        /\ chunks[r] <=> doc[r] = "indexed"
        /\ r \in Uploads /\ doc[r] # "absent" => r \in stored

(* Metering follows the documents: an indexed document is metered on every *)
(* metric of its kind, and a document that is not indexed is metered only  *)
(* if it is an accepted media upload, charged before its text exists.      *)
MeteringMatchesDocuments ==
    \A r \in Requests :
        /\ doc[r] = "indexed" =>
               usage[r] = IF r \in Uploads THEN Metrics
                          ELSE Metrics \ {"upload.bytes"}
        /\ doc[r] # "indexed" =>
               usage[r] \in {{}} \cup (IF r \in AsyncMedia
                                       THEN {{"upload.bytes", "document.count"}}
                                       ELSE {})
        /\ r \in audited <=> r \in Connectors /\ doc[r] = "indexed"

(* No handler consults job_state.py, yet jobs only move as it allows.      *)
Jobs == INSTANCE IngestionJobs WITH Jobs <- Requests
JobsFollowStateTable == Jobs!Spec

(* While the process lives and errors are the expected ones, an accepted   *)
(* document ends indexed or failed, whatever the loop and the pool do.     *)
IngestionEnds ==
    \A r \in Requests :
        doc[r] = "processing" ~> doc[r] \in {"indexed", "failed"}
=============================================================================
