------------------------- MODULE DocumentProcessing -------------------------
(***************************************************************************)
(* One uploaded document: its row, its chunks in the vector store, the     *)
(* Celery task that processes it, the OCR task that a bad quality verdict  *)
(* adds, and the /process endpoint that processes it again in the          *)
(* background of a request.                                                *)
(*                                                                         *)
(* All of them run services/document_service.py, which commits several     *)
(* times on its way.  processing_info is one JSON column: a run reads it,  *)
(* works, and writes the whole value back.  A document has no watchdog.    *)
(*                                                                         *)
(* Text extraction, embedding and OCR are abstract; a verdict is good or   *)
(* bad.  Statuses and escalation states that no path reaches are left out. *)
(*                                                                         *)
(* task_acks_late without reject_on_worker_lost: the message of a run      *)
(* whose worker dies is gone.  When only the channel is lost, the broker   *)
(* delivers it again while the first run may still work.                   *)
(***************************************************************************)
EXTENDS Integers

CONSTANTS
    Runs,          \* slots for messages and the runs that hold them (bound)
    OcrAvailable,  \* is Tesseract installed on the worker?
    MaxRetries,    \* retries of process_document (3 in the code)
    MaxOcrRetries, \* REPROCESS_MAX_RETRIES (2 in the code)
    MaxRequests,   \* bound on calls of /process
    MaxFaults      \* bound on failing calls and failing commits

ASSUME ConstantsAssumption ==
    /\ OcrAvailable \in BOOLEAN
    /\ {MaxRetries, MaxOcrRetries, MaxRequests, MaxFaults} \subseteq Nat

VARIABLES
    status,      \* documents.status, "none" before the INSERT
    hasVectors,  \* documents.has_vectors
    info,        \* documents.processing_info
    chunks,      \* are chunks of the document in the vector store?
    upload,      \* the request that uploads the document
    run,         \* the slots
    lost,        \* was a message or the status of a failure lost? (history)
    bare,        \* did a run without vectors write PROCESSED while the store was
                 \* empty, and no run make chunks since? (history)
    requests, faults

vars == <<status, hasVectors, info, chunks, upload, run, lost, bare, requests, faults>>

\* The last two are /process, with create_vectors true and false.
RunKinds == {"process", "ocr", "vectors", "content"}
Tasks == {"process", "ocr"}
Escalations == {"none", "queued", "not_needed", "unavailable", "exhausted",
                "completed", "failed"}
Infos == [escalation : Escalations, ocrAttempted : BOOLEAN]
Verdicts == {"good", "bad", "noVectors"}
Points == {"idle", "message", "clear", "start", "extract", "embed", "record",
           "judge", "escalate", "write", "error"}

NoInfo == [escalation |-> "none", ocrAttempted |-> FALSE]
Empty == [pc |-> "idle", kind |-> "process", retries |-> 0, info |-> NoInfo,
          verdict |-> "good", again |-> FALSE]
Message(k, n) == [Empty EXCEPT !.pc = "message", !.kind = k, !.retries = n]

TypeOK ==
    /\ status \in {"none", "uploaded", "queued", "processing", "processed",
                   "error", "deleted"}
    /\ hasVectors \in BOOLEAN /\ chunks \in BOOLEAN
    /\ info \in Infos
    /\ upload \in {"start", "stored", "publish", "done"}
    /\ run \in [Runs -> [pc : Points, kind : RunKinds, retries : 0..(MaxRetries + MaxOcrRetries),
                         info : Infos, verdict : Verdicts, again : BOOLEAN]]
    /\ \A r \in Runs : run[r].retries <= (IF run[r].kind = "process" THEN MaxRetries
                                                                     ELSE MaxOcrRetries)
    /\ lost \in BOOLEAN /\ bare \in BOOLEAN
    /\ requests \in 0..MaxRequests
    /\ faults \in 0..MaxFaults

Init ==
    /\ status = "none" /\ hasVectors = FALSE /\ info = NoInfo /\ chunks = FALSE
    /\ upload = "start"
    /\ run = [r \in Runs |-> Empty]
    /\ lost = FALSE /\ bare = FALSE /\ requests = 0 /\ faults = 0

Exists == status \notin {"none", "deleted"}
\* Slots are names: a new message takes a fixed one of the free slots.
Free(r) == run[r].pc = "idle" /\ r = CHOOSE s \in Runs : run[s].pc = "idle"
Fault == faults < MaxFaults /\ faults' = faults + 1

At(r, kinds, pc) == run[r].pc = pc /\ run[r].kind \in kinds
GoTo(r, pc) == run' = [run EXCEPT ![r].pc = pc]
\* The run is over: its message is acknowledged, its slot is free.
Over(r) == run' = [run EXCEPT ![r] = Empty]
\* The run continues at pc with what it has just read from the row.
Refreshed(r, pc) == run' = [run EXCEPT ![r] = [@ EXCEPT !.pc = pc, !.info = info]]
\* An exception leaves the service or the task; again: may Celery retry it?
Raise(r, again) ==
    run' = [run EXCEPT ![r] = IF @.kind \in Tasks
                              THEN [@ EXCEPT !.pc = "error", !.again = again]
                              ELSE Empty]

rowVars == <<status, hasVectors, info>>

-----------------------------------------------------------------------------
(* The request that uploads, and the other requests.                        *)

\* DocumentService.upload_document stores the file and the row.
StoreUpload ==
    /\ upload = "start"
    /\ status' = "uploaded" /\ upload' = "stored"
    /\ UNCHANGED <<hasVectors, info, chunks, run, lost, bare, requests, faults>>

QueueUpload ==
    /\ upload = "stored" /\ upload' = "publish"
    /\ status' = IF Exists THEN "queued" ELSE status
    /\ UNCHANGED <<hasVectors, info, chunks, run, lost, bare, requests, faults>>

PublishUpload ==
    /\ upload = "publish" /\ upload' = "done"
    /\ \E r \in Runs : /\ Free(r)
                       /\ run' = [run EXCEPT ![r] = Message("process", 0)]
    /\ UNCHANGED <<rowVars, chunks, lost, bare, requests, faults>>

\* Neither the file nor the row is undone.
UploadFails ==
    /\ upload \in {"stored", "publish"} /\ upload' = "done"
    /\ Fault /\ lost' = TRUE
    /\ UNCHANGED <<rowVars, chunks, run, bare, requests>>

\* No status is checked: any document may be processed again at any time.
Reprocess ==
    /\ Exists
    /\ requests < MaxRequests /\ requests' = requests + 1
    /\ \E r \in Runs, k \in {"vectors", "content"} :
          /\ Free(r)
          /\ run' = [run EXCEPT ![r] = [Empty EXCEPT !.pc = "start", !.kind = k]]
    /\ UNCHANGED <<rowVars, chunks, upload, lost, bare, faults>>

\* The file and the row go; the chunks in the vector store stay.
DeleteDocument ==
    /\ Exists /\ status' = "deleted"
    /\ UNCHANGED <<hasVectors, info, chunks, upload, run, lost, bare, requests, faults>>

-----------------------------------------------------------------------------
(* The tasks up to the service.                                             *)

LoadDocument(r) ==
    /\ At(r, Tasks, "message")
    /\ IF Exists
       THEN Refreshed(r, IF run[r].kind = "ocr" THEN "clear" ELSE "start")
       ELSE Over(r)
    /\ UNCHANGED <<rowVars, chunks, upload, lost, bare, requests, faults>>

DeleteChunks(r) ==
    /\ At(r, {"ocr"}, "clear")
    /\ chunks' = FALSE
    /\ GoTo(r, "start")
    /\ UNCHANGED <<rowVars, upload, lost, bare, requests, faults>>

\* The vector store reports an error; the chunks may be gone all the same.
DeleteChunksFails(r) ==
    /\ At(r, {"ocr"}, "clear")
    /\ Fault
    /\ chunks' \in {chunks, FALSE}
    /\ Raise(r, TRUE)
    /\ UNCHANGED <<rowVars, upload, lost, bare, requests>>

-----------------------------------------------------------------------------
(* DocumentService: process_document_content, process_document_with_vectors *)

StartContent(r) ==
    /\ At(r, RunKinds, "start")
    /\ IF Exists
       THEN status' = "processing" /\ GoTo(r, "extract")
       ELSE status' = status /\ Raise(r, FALSE)
    /\ UNCHANGED <<hasVectors, info, chunks, upload, lost, bare, requests, faults>>

\* The row is read again here; embedding follows with this copy of the info.
ContentDone(r) ==
    /\ At(r, RunKinds, "extract") /\ Exists
    /\ status' = "processed"
    /\ IF run[r].kind = "content" THEN Over(r) ELSE Refreshed(r, "embed")
    /\ bare' = (bare \/ (run[r].kind = "content" /\ ~chunks))
    /\ UNCHANGED <<hasVectors, info, chunks, upload, lost, requests, faults>>

FailedMutant == status
Failed == IF Exists THEN "error" ELSE status

\* Unreadable or empty file, or the row is gone: the service returns None,
\* for which the tasks raise ValueError.
ContentFails(r) ==
    /\ At(r, RunKinds, "extract")
    /\ status' = Failed
    /\ Raise(r, FALSE)
    /\ UNCHANGED <<hasVectors, info, chunks, upload, lost, bare, requests, faults>>

Embed(r) ==
    /\ At(r, RunKinds, "embed")
    /\ chunks' = TRUE /\ bare' = FALSE
    /\ GoTo(r, "record")
    /\ UNCHANGED <<rowVars, upload, lost, requests, faults>>

\* The service returns to the task, or to a request that ignores the result.
Judged(r, v) ==
    run' = [run EXCEPT ![r] = IF @.kind \in Tasks
                              THEN [@ EXCEPT !.pc = "judge", !.verdict = v]
                              ELSE Empty]

RecordVectors(r) ==
    /\ At(r, RunKinds, "record")
    /\ IF ~Exists
       THEN UNCHANGED rowVars /\ Raise(r, FALSE)
       ELSE /\ hasVectors' = TRUE
            /\ info' = run[r].info
            /\ status' = status
            /\ \E v \in {"good", "bad"} : Judged(r, v)
    /\ UNCHANGED <<chunks, upload, lost, bare, requests, faults>>

\* An error is to be written: to the row, or to nothing if that commit fails
\* as well.
ErrorWritten ==
    \/ status' = Failed /\ lost' = lost
    \/ status' = status /\ lost' = TRUE

\* Embedding fails, or the commit after it.
VectorsFail(r) ==
    /\ At(r, RunKinds, "embed") \/ At(r, RunKinds, "record")
    /\ Fault
    /\ ErrorWritten
    /\ Judged(r, "noVectors")
    /\ UNCHANGED <<hasVectors, info, chunks, upload, bare, requests>>

-----------------------------------------------------------------------------
(* The tasks after the service.                                             *)

VectorFailure(r) == status = "error" \/ run[r].verdict = "noVectors"

\* process_document refreshes the row and decides about OCR.
EscalationNeeded(r) == run[r].verdict = "bad" /\ OcrAvailable /\ ~info.ocrAttempted
EscalationWithoutOcr(r) ==
    CASE run[r].verdict = "good" -> "not_needed"
      [] run[r].verdict = "bad" /\ ~OcrAvailable -> "unavailable"
      [] OTHER -> IF info.escalation = "none" THEN "exhausted" ELSE info.escalation

\* The run has made up its mind what to write to the row.
ToWrite(r, i) == run' = [run EXCEPT ![r] = [@ EXCEPT !.pc = "write", !.info = i]]

Judge(r) ==
    /\ At(r, {"process"}, "judge")
    /\ CASE ~Exists -> Raise(r, TRUE)
         [] Exists /\ VectorFailure(r) -> Over(r)
         [] OTHER ->
              IF EscalationNeeded(r) THEN Refreshed(r, "escalate")
              ELSE ToWrite(r, [info EXCEPT !.escalation = EscalationWithoutOcr(r)])
    /\ UNCHANGED <<rowVars, chunks, upload, lost, bare, requests, faults>>

\* The OCR message is sent before the row says that it is queued.
EscalationQueued(r) == [run[r] EXCEPT !.pc = "write",
                            !.info = [run[r].info EXCEPT !.escalation = "queued"]]
Escalate(r) ==
    /\ At(r, {"process"}, "escalate")
    /\ \E s \in Runs : /\ Free(s)
                       /\ run' = [run EXCEPT ![s] = Message("ocr", 0),
                                             ![r] = EscalationQueued(r)]
    /\ UNCHANGED <<rowVars, chunks, upload, lost, bare, requests, faults>>

\* reprocess_document_ocr refreshes the row and sets its flags.
JudgeOcr(r) ==
    /\ At(r, {"ocr"}, "judge")
    /\ IF ~Exists THEN Raise(r, TRUE)
       ELSE ToWrite(r, [escalation |-> CASE VectorFailure(r) -> "failed"
                                         [] ~VectorFailure(r) /\ run[r].verdict = "good"
                                              -> "completed"
                                         [] OTHER -> "exhausted",
                        ocrAttempted |-> TRUE])
    /\ UNCHANGED <<rowVars, chunks, upload, lost, bare, requests, faults>>

WriteInfo(r) ==
    /\ At(r, Tasks, "write")
    /\ IF Exists THEN info' = run[r].info /\ Over(r)
                 ELSE info' = info /\ Raise(r, TRUE)
    /\ UNCHANGED <<status, hasVectors, chunks, upload, lost, bare, requests, faults>>

\* apply_async or the commit fails.
TaskFails(r) ==
    /\ At(r, Tasks, "escalate") \/ At(r, Tasks, "write")
    /\ Fault
    /\ Raise(r, TRUE)
    /\ UNCHANGED <<rowVars, chunks, upload, lost, bare, requests>>

FailedInfo == [escalation |-> "failed", ocrAttempted |-> TRUE]

RetryLimit(k) == IF k = "process" THEN MaxRetries ELSE MaxOcrRetries
Retryable(r) == run[r].again /\ run[r].retries < RetryLimit(run[r].kind)

\* The except clauses: process_document always writes ERROR, the OCR task only
\* when no retry follows.  Then Celery retries or gives up.
RetryOrEnd(r) == run' = [run EXCEPT ![r] = IF Retryable(r)
                                           THEN Message(@.kind, @.retries + 1) ELSE Empty]

HandleError(r) ==
    /\ At(r, Tasks, "error")
    /\ IF run[r].kind = "process" \/ ~Retryable(r)
       THEN status' = Failed ELSE status' = status
    /\ IF Exists /\ run[r].kind = "ocr" /\ ~Retryable(r)
       THEN info' = FailedInfo ELSE info' = info
    /\ RetryOrEnd(r)
    /\ UNCHANGED <<hasVectors, chunks, upload, lost, bare, requests, faults>>

\* The commit of the except clause fails; the task raises as before.
HandleErrorFails(r) ==
    /\ At(r, Tasks, "error")
    /\ Fault /\ lost' = TRUE
    /\ RetryOrEnd(r)
    /\ UNCHANGED <<rowVars, chunks, upload, bare, requests>>

-----------------------------------------------------------------------------
(* Workers and channels.                                                    *)

\* The worker dies, or task_time_limit kills the run.
WorkerLost(r) ==
    /\ run[r].pc \notin {"idle", "message"}
    /\ Fault /\ lost' = TRUE
    /\ Over(r)
    /\ UNCHANGED <<rowVars, chunks, upload, bare, requests>>

\* A second run of the same message starts next to the first.
ChannelLost(r, s) ==
    /\ run[r].pc \notin {"idle", "message"} /\ run[r].kind \in Tasks
    /\ Free(s)
    /\ Fault
    /\ run' = [run EXCEPT ![s] = Message(run[r].kind, run[r].retries)]
    /\ UNCHANGED <<rowVars, chunks, upload, lost, bare, requests>>

-----------------------------------------------------------------------------
RunStep(r) ==
    \/ LoadDocument(r)
    \/ DeleteChunks(r)
    \/ StartContent(r)
    \/ ContentDone(r)
    \/ ContentFails(r)
    \/ Embed(r)
    \/ RecordVectors(r)
    \/ Judge(r)
    \/ Escalate(r)
    \/ JudgeOcr(r)
    \/ WriteInfo(r)
    \/ HandleError(r)

RunTrouble(r) ==
    \/ DeleteChunksFails(r)
    \/ VectorsFail(r)
    \/ TaskFails(r)
    \/ HandleErrorFails(r)
    \/ WorkerLost(r)
    \/ \E s \in Runs : ChannelLost(r, s)

RequestStep == StoreUpload \/ QueueUpload \/ PublishUpload

Next ==
    \/ RequestStep
    \/ UploadFails
    \/ Reprocess
    \/ DeleteDocument
    \/ \E r \in Runs : RunStep(r) \/ RunTrouble(r)

Spec == Init /\ [][Next]_vars

-----------------------------------------------------------------------------
(* Fairness: the upload goes on, and a worker goes on with what it took.    *)
(* There is no fairness on deliveries that have no free slot, on requests   *)
(* or on faults.                                                            *)

FairSpec ==
    /\ Spec
    /\ WF_vars(RequestStep)
    /\ \A r \in Runs : WF_vars(RunStep(r))

-----------------------------------------------------------------------------
(* Properties.                                                              *)

Quiet == \A r \in Runs : run[r].pc = "idle"

\* A document that is shown as processed with vectors can be found by retrieval
\* once nothing works on it, although the OCR task deletes the chunks before it
\* knows whether it can make new ones, and other runs write the same row.  Only a
\* run without vectors may show it so again after such a deletion.
ProcessedIsSearchable ==
    Quiet /\ ~lost /\ ~bare /\ status = "processed" /\ hasVectors => chunks

\* What has_vectors says of itself.  Refuted: OCR that fails has deleted the chunks
\* and left has_vectors; /process without vectors then writes PROCESSED.
FlagMeansChunks ==
    Quiet /\ ~lost /\ status = "processed" /\ hasVectors => chunks

\* No uploaded document waits for ever, unless its message or its worker was
\* lost: nothing looks for such documents.
DocumentSettles ==
    status \in {"queued", "processing"} ~> status \in {"processed", "error", "deleted"} \/ lost
=============================================================================
