--------------------------- MODULE GenerationJob ---------------------------
(***************************************************************************)
(* The life of a question generation job: its database row, the Celery     *)
(* message that carries it, the worker runs that execute that message, the *)
(* Celery result backend, the watchdog and the /active-tasks mirror.       *)
(*                                                                         *)
(* backend/api/rag_exams.py writes the row and publishes the message;      *)
(* backend/tasks/question_tasks.py runs it; backend/tasks/                 *)
(* maintenance_tasks.py repairs rows nobody finished.  A message can run   *)
(* more than once: the broker redelivers it when its worker is lost        *)
(* (task_acks_late, reject_on_worker_lost) or when the channel closes      *)
(* while the old run lives on, and an autoretry publishes it again.        *)
(*                                                                         *)
(* One action is one database transaction, or one call to the broker or to *)
(* the result backend.  Between two actions of one actor every other actor *)
(* may move: PostgreSQL runs READ COMMITTED and only _try_update_job_status*)
(* and _save_generation lock the row.                                      *)
(***************************************************************************)
EXTENDS Integers

CONSTANTS
    Jobs,             \* task ids; one row of question_generation_jobs each
    Runs,             \* slots for messages and the runs that hold them (bound)
    NoJob,            \* the task id of an empty slot, the parent of a first job
    MaxRetries,       \* retry_kwargs max_retries: 4 in the code
    MaxRedeliveries,  \* _MAX_REDELIVERIES: 3 in the code
    MaxFaults,        \* bound on crashes, lost connections and failed writes
    CoreWorkers       \* do some workers run without the premium RAGService?

ASSUME ConstantsAssumption ==
    /\ NoJob \notin Jobs
    /\ MaxRetries \in Nat
    /\ MaxRedeliveries \in Nat \ {0}
    /\ MaxFaults \in Nat
    /\ CoreWorkers \in BOOLEAN

VARIABLES
    status,           \* job.status, "NONE" before the INSERT, "DELETED" after
    redeliveryCount,  \* job.redelivery_count
    saved,            \* how many question sets were committed for the job
    linked,           \* do questions with generation_job_id = job.id exist?
    restarts,         \* history: redelivered runs that went on to generate
    backend,          \* the task's state in Celery's result backend
    run,              \* the slots: a queued message or the run executing it
    api,              \* progress of the request that creates the job
    parent,           \* the job whose retry this one is
    watchdog,         \* progress of reconcile_stuck_jobs on each job
    mirror,           \* the state /active-tasks is about to write to the row
    faults            \* faults so far

rowVars == <<status, redeliveryCount>>
questionVars == <<saved, linked, restarts>>
requestVars == <<api, parent>>
observerVars == <<watchdog, mirror>>
vars == <<rowVars, questionVars, backend, run, requestVars, observerVars, faults>>

Terminal == {"SUCCESS", "FAILURE", "REVOKED"}
Absent == {"NONE", "DELETED"}
RowStates == Absent \cup {"PENDING"} \cup Terminal
BackendStates == {"PENDING", "STARTED", "RETRY"} \cup Terminal

\* Where a slot is.  "idle" and "queued" are the broker's, "ack" still needs
\* its acknowledgement, the others are points of generate_questions_task.
InTask == {"check", "repair", "count", "reject", "generate", "failed",
           "escaped", "fatal", "drop", "raise", "report", "return"}
Executing == InTask \cup {"ack"}
PCs == {"idle", "queued"} \cup Executing

Slot == [pc : PCs, job : Jobs \cup {NoJob}, retries : 0..MaxRetries,
         redelivered : BOOLEAN, held : BOOLEAN, late : BOOLEAN,
         seen : 0..MaxRedeliveries]

EmptySlot == [pc |-> "idle", job |-> NoJob, retries |-> 0, redelivered |-> FALSE,
              held |-> FALSE, late |-> FALSE, seen |-> 0]

Message(j, n, again) ==
    [pc |-> "queued", job |-> j, retries |-> n, redelivered |-> again,
     held |-> FALSE, late |-> FALSE, seen |-> 0]

JobTypeOK ==
    /\ status \in [Jobs -> RowStates]
    /\ redeliveryCount \in [Jobs -> 0..MaxRedeliveries]
    /\ saved \in [Jobs -> Nat]
    /\ linked \in [Jobs -> BOOLEAN]
    /\ restarts \in [Jobs -> Nat]
    /\ backend \in [Jobs -> BackendStates]
    /\ api \in [Jobs -> {"none", "checked", "committed", "undo", "done"}]
    /\ parent \in [Jobs -> Jobs \cup {NoJob}]
    /\ watchdog \in [Jobs -> {"idle", "loaded", "lost", "notify"} \cup Terminal]
    /\ mirror \in [Jobs -> {"idle"} \cup Terminal]
    /\ faults \in 0..MaxFaults

RunTypeOK == run \in [Runs -> Slot]

TypeOK == JobTypeOK /\ RunTypeOK

Init ==
    /\ status = [j \in Jobs |-> "NONE"]
    /\ redeliveryCount = [j \in Jobs |-> 0]
    /\ saved = [j \in Jobs |-> 0]
    /\ linked = [j \in Jobs |-> FALSE]
    /\ restarts = [j \in Jobs |-> 0]
    /\ backend = [j \in Jobs |-> "PENDING"]
    /\ run = [r \in Runs |-> EmptySlot]
    /\ api = [j \in Jobs |-> "none"]
    /\ parent = [j \in Jobs |-> NoJob]
    /\ watchdog = [j \in Jobs |-> "idle"]
    /\ mirror = [j \in Jobs |-> "idle"]
    /\ faults = 0

-----------------------------------------------------------------------------
(***************************************************************************)
(* Helpers                                                                 *)
(***************************************************************************)

Fault == faults < MaxFaults /\ faults' = faults + 1

Goto(r, point) == run' = [run EXCEPT ![r].pc = point]
Free(r) == run' = [run EXCEPT ![r] = EmptySlot]

\* Celery's key-value backends never replace a stored SUCCESS.
StoreResult(j, state) ==
    backend' = [backend EXCEPT ![j] = IF @ = "SUCCESS" THEN @ ELSE state]

\* The row after _try_update_job_status: a missing row raises
\* JobNotFoundError, a SUCCESS row is kept.
StatusAfter(j, new) ==
    IF status[j] \in Absent \cup {"SUCCESS"} THEN status[j] ELSE new

\* A failing database: every attempt of _update_job_status raised.
TryUpdateStatus(j, new) ==
    \/ status' = [status EXCEPT ![j] = StatusAfter(j, new)] /\ UNCHANGED faults
    \/ Fault /\ UNCHANGED status

\* What a run asks of its job.  _check_job_at_start: is it finished, was it
\* given up?  _save_generation: may questions still be stored for it?
JobFinishedMutant(j) == status[j] \in {"SUCCESS", "FAILURE"} \/ linked[j]
JobFinished(j) == status[j] = "SUCCESS" \/ linked[j]

JobGivenUp(j) == status[j] \in {"FAILURE", "REVOKED"}

JobStillOpenMutant(j) == ~linked[j]
JobNotLockedMutant(j) == TRUE
JobStillOpen(j) == status[j] = "PENDING" /\ ~linked[j]

\* retry_kwargs: may the task be published again?
RetriesLeft(r) == run[r].retries < MaxRetries

\* Operators named ...Mutant are wrong on purpose: each replaces the
\* definition after it to show that a property notices.

-----------------------------------------------------------------------------
(***************************************************************************)
(* The API: generate_rag_exam and retry_generation                         *)
(***************************************************************************)

\* The row is committed before the message is published.
Generate(j) ==
    /\ api[j] = "none"
    /\ status[j] = "NONE"
    /\ status' = [status EXCEPT ![j] = "PENDING"]
    /\ api' = [api EXCEPT ![j] = "committed"]
    /\ UNCHANGED <<redeliveryCount, questionVars, backend, run, parent,
                   observerVars, faults>>

\* retry_generation repairs a job that has questions and refuses it (409).
RetryRefused(j) ==
    /\ status[j] \notin Absent
    /\ linked[j]
    /\ status' = [status EXCEPT ![j] = "SUCCESS"]
    /\ UNCHANGED <<redeliveryCount, questionVars, backend, run,
                   requestVars, observerVars, faults>>

\* It accepts a job without questions whose status is FAILURE or REVOKED.
Retryable(j) == ~linked[j] /\ status[j] \in {"FAILURE", "REVOKED"}

RetryAccepted(j, k) ==
    /\ Retryable(j)
    /\ api[k] = "none"
    /\ status[k] = "NONE"
    /\ api' = [api EXCEPT ![k] = "checked"]
    /\ parent' = [parent EXCEPT ![k] = j]
    /\ UNCHANGED <<rowVars, questionVars, backend, run, observerVars, faults>>

\* The new job gets a row and a task id of its own; the old row stays.
RetryCommit(k) ==
    /\ api[k] = "checked"
    /\ status' = [status EXCEPT ![k] = "PENDING"]
    /\ api' = [api EXCEPT ![k] = "committed"]
    /\ UNCHANGED <<redeliveryCount, questionVars, backend, run, parent,
                   observerVars, faults>>

\* apply_async
Publish(j, r) ==
    /\ api[j] = "committed"
    /\ run[r].pc = "idle"
    /\ run' = [run EXCEPT ![r] = Message(j, 0, FALSE)]
    /\ api' = [api EXCEPT ![j] = "done"]
    /\ UNCHANGED <<rowVars, questionVars, backend, parent, observerVars, faults>>

\* apply_async raises.  The connection can break after the broker took the
\* message: the caller cannot tell.
PublishFails(j) ==
    /\ api[j] = "committed"
    /\ Fault
    /\ api' = [api EXCEPT ![j] = "undo"]
    /\ \/ UNCHANGED run
       \/ \E r \in Runs :
            /\ run[r].pc = "idle"
            /\ run' = [run EXCEPT ![r] = Message(j, 0, FALSE)]
    /\ UNCHANGED <<rowVars, questionVars, backend, parent, observerVars>>

\* The except branch deletes the row; the foreign key of questions that a
\* run committed meanwhile is set to NULL.
UndoJob(j) ==
    /\ api[j] = "undo"
    /\ status' = [status EXCEPT ![j] = "DELETED"]
    /\ linked' = [linked EXCEPT ![j] = FALSE]
    /\ api' = [api EXCEPT ![j] = "done"]
    /\ UNCHANGED <<redeliveryCount, saved, restarts, backend, run, parent,
                   observerVars, faults>>

\* The request dies, or its DELETE fails, and the row stays behind.
RequestDies(j) ==
    /\ api[j] \in {"checked", "committed", "undo"}
    /\ Fault
    /\ api' = [api EXCEPT ![j] = "done"]
    /\ UNCHANGED <<rowVars, questionVars, backend, run, parent, observerVars>>

\* Reviewers archive and hard-delete every question of the job.
DeleteQuestions(j) ==
    /\ linked[j]
    /\ linked' = [linked EXCEPT ![j] = FALSE]
    /\ UNCHANGED <<rowVars, saved, restarts, backend, run, requestVars,
                   observerVars, faults>>

-----------------------------------------------------------------------------
(***************************************************************************)
(* The broker and the worker pool (Celery, RabbitMQ)                       *)
(***************************************************************************)

\* A worker takes the message; task_track_started stores STARTED.
Deliver(r) ==
    /\ run[r].pc = "queued"
    /\ run' = [run EXCEPT ![r] = [@ EXCEPT !.pc = "check", !.held = TRUE]]
    /\ StoreResult(run[r].job, "STARTED")
    /\ UNCHANGED <<rowVars, questionVars, requestVars, observerVars, faults>>

\* An operator revoked the task: the worker drops the message.
DeliverRevoked(r) ==
    /\ run[r].pc = "queued"
    /\ Fault
    /\ Free(r)
    /\ StoreResult(run[r].job, "REVOKED")
    /\ UNCHANGED <<rowVars, questionVars, requestVars, observerVars>>

\* The worker process is killed.  The broker requeues what it still held.
WorkerLost(r) ==
    /\ run[r].pc \in Executing
    /\ Fault
    /\ run' = [run EXCEPT ![r] = IF run[r].held
                                 THEN Message(run[r].job, run[r].retries, TRUE)
                                 ELSE EmptySlot]
    /\ UNCHANGED <<rowVars, questionVars, backend, requestVars, observerVars>>

\* The broker gives up on the worker's connection (missed heartbeats, a
\* restart, consumer_timeout) and redelivers the message while the first run
\* goes on: until Celery notices and cancels it (WorkerLost), or to its end.
ChannelLost(r, s) ==
    /\ run[r].pc \in Executing
    /\ run[r].held
    /\ run[s].pc = "idle"
    /\ Fault
    /\ run' = [run EXCEPT ![r].held = FALSE,
                          ![s] = Message(run[r].job, run[r].retries, TRUE)]
    /\ UNCHANGED <<rowVars, questionVars, backend, requestVars, observerVars>>

\* task_time_limit: the child is killed, the result is FAILURE, the message
\* is acknowledged; the row is not touched.
TimeLimit(r) ==
    /\ run[r].pc \in InTask
    /\ Fault
    /\ Free(r)
    /\ StoreResult(run[r].job, "FAILURE")
    /\ UNCHANGED <<rowVars, questionVars, requestVars, observerVars>>

\* The result expires (result_expires) when no run has written it for a day.
Expire(j) ==
    /\ backend[j] # "PENDING"
    /\ \A r \in Runs : run[r].job = j => run[r].pc \in {"idle", "queued"}
    /\ backend' = [backend EXCEPT ![j] = "PENDING"]
    /\ UNCHANGED <<rowVars, questionVars, run, requestVars, observerVars, faults>>

-----------------------------------------------------------------------------
(***************************************************************************)
(* generate_questions_task                                                 *)
(***************************************************************************)

\* Core deployment, RAGService is None: FAILURE, then Reject.  Reject stores
\* no result.
RejectWithoutRag(r) ==
    /\ CoreWorkers
    /\ run[r].pc = "check"
    /\ ~run[r].late
    /\ TryUpdateStatus(run[r].job, "FAILURE")
    /\ Free(r)
    /\ UNCHANGED <<redeliveryCount, questionVars, backend, requestVars,
                   observerVars>>

\* _check_job_at_start: the row and its questions are read, without a lock.
\* "late" is the second call, after _save_generation returned None.
CheckJob(r) ==
    LET j == run[r].job IN
    /\ run[r].pc = "check"
    /\ \/ /\ status[j] \in Absent
          /\ Goto(r, IF run[r].late THEN "return" ELSE "generate")
       \/ /\ status[j] \notin Absent
          /\ JobFinished(j)
          /\ Goto(r, IF status[j] = "SUCCESS" THEN "return" ELSE "repair")
       \/ /\ status[j] \notin Absent
          /\ ~JobFinished(j)
          /\ JobGivenUp(j)
          /\ Goto(r, "reject")
       \/ /\ status[j] \notin Absent
          /\ ~JobFinished(j)
          /\ ~JobGivenUp(j)
          /\ IF run[r].late THEN Goto(r, "return")
             ELSE IF run[r].redelivered
             THEN run' = [run EXCEPT ![r] = [@ EXCEPT !.pc = "count",
                                                     !.seen = redeliveryCount[j]]]
             ELSE Goto(r, "generate")
    /\ UNCHANGED <<rowVars, questionVars, backend, requestVars, observerVars,
                   faults>>

\* The write that follows the read: status = SUCCESS, whatever the row says.
RepairJob(r) ==
    LET j == run[r].job IN
    /\ run[r].pc = "repair"
    /\ status[j] \notin Absent
    /\ status' = [status EXCEPT ![j] = "SUCCESS"]
    /\ Goto(r, "return")
    /\ UNCHANGED <<redeliveryCount, questionVars, backend, requestVars,
                   observerVars, faults>>

\* redelivery_count += 1 on the value read before; at the limit the same
\* commit sets FAILURE, whatever the row says by now.
CountRedelivery(r) ==
    LET j == run[r].job
        n == run[r].seen + 1 IN
    /\ run[r].pc = "count"
    /\ status[j] \notin Absent
    /\ redeliveryCount' = [redeliveryCount EXCEPT ![j] = n]
    /\ \/ /\ n >= MaxRedeliveries
          /\ status' = [status EXCEPT ![j] = "FAILURE"]
          /\ Goto(r, "reject")
          /\ UNCHANGED restarts
       \/ /\ n < MaxRedeliveries
          /\ UNCHANGED status
          /\ Goto(r, "generate")
          /\ restarts' = [restarts EXCEPT ![j] = @ + 1]
    /\ UNCHANGED <<saved, linked, backend, requestVars, observerVars, faults>>

\* _reject_generation: the result becomes FAILURE (best effort), then Reject.
\* Outside the try block Reject ends the task; inside, FAILURE is written.
RejectGeneration(r) ==
    /\ run[r].pc = "reject"
    /\ \/ StoreResult(run[r].job, "FAILURE") /\ UNCHANGED faults
       \/ Fault /\ UNCHANGED backend
    /\ IF run[r].late THEN Goto(r, "drop") ELSE Free(r)
    /\ UNCHANGED <<rowVars, questionVars, requestVars, observerVars>>

DropMessage(r) ==
    /\ run[r].pc = "drop"
    /\ TryUpdateStatus(run[r].job, "FAILURE")
    /\ Free(r)
    /\ UNCHANGED <<redeliveryCount, questionVars, backend, requestVars,
                   observerVars>>

\* _persist_questions: the questions of one run, with their tags and sources.
Persist(j) == saved' = [saved EXCEPT ![j] = @ + 1]

\* _save_generation on a PENDING row without questions: questions, links
\* and SUCCESS in one commit under the row lock.
SaveGeneration(r) ==
    LET j == run[r].job IN
    /\ run[r].pc = "generate"
    /\ status[j] \notin Absent
    /\ JobStillOpen(j)
    /\ status' = [status EXCEPT ![j] = "SUCCESS"]
    /\ Persist(j)
    /\ linked' = [linked EXCEPT ![j] = TRUE]
    /\ Goto(r, "report")
    /\ UNCHANGED <<redeliveryCount, restarts, backend, requestVars,
                   observerVars, faults>>

\* Without a row the questions are committed unlinked.
SaveUnlinked(r) ==
    LET j == run[r].job IN
    /\ run[r].pc = "generate"
    /\ status[j] \in Absent
    /\ Persist(j)
    /\ Goto(r, "report")
    /\ UNCHANGED <<rowVars, linked, restarts, backend, requestVars, observerVars,
                   faults>>

\* The row is finished or given up: the questions are discarded and the
\* job's outcome is looked up again.
DiscardGeneration(r) ==
    LET j == run[r].job IN
    /\ run[r].pc = "generate"
    /\ status[j] \notin Absent
    /\ ~JobStillOpen(j)
    /\ run' = [run EXCEPT ![r] = [@ EXCEPT !.pc = "check", !.late = TRUE]]
    /\ UNCHANGED <<rowVars, questionVars, backend, requestVars, observerVars,
                   faults>>

\* An exception: in the try block (generation, save, second check, and the
\* result that is put together after the commit) or outside it (first check).
\* A lost row at a write raises as well.
RunFails(r) ==
    /\ run[r].pc \in {"check", "repair", "count", "generate", "report"}
    /\ Goto(r, IF run[r].late \/ run[r].pc \in {"generate", "report"} THEN "failed"
               ELSE "escaped")
    /\ UNCHANGED <<rowVars, questionVars, backend, requestVars, observerVars,
                   faults>>

\* An exception that dont_autoretry_for lists: raised by the generation, the
\* save or the result, or by RAGExamRequest(**request_data) before the try block.
RunFailsForGood(r) ==
    /\ \/ run[r].pc \in {"generate", "report"} /\ Goto(r, "fatal")
       \/ run[r].pc = "generate" /\ Goto(r, "raise")
    /\ UNCHANGED <<rowVars, questionVars, backend, requestVars, observerVars,
                   faults>>

\* except (Reject, ValidationError, ...): FAILURE, then raise.
FailForGood(r) ==
    /\ run[r].pc = "fatal"
    /\ TryUpdateStatus(run[r].job, "FAILURE")
    /\ Goto(r, "raise")
    /\ UNCHANGED <<redeliveryCount, questionVars, backend, requestVars,
                   observerVars>>

\* except Exception: FAILURE only when no retry is left, then raise.
FailOrRetry(r) ==
    /\ run[r].pc = "failed"
    /\ IF RetriesLeft(r) THEN UNCHANGED <<status, faults>>
       ELSE TryUpdateStatus(run[r].job, "FAILURE")
    /\ Goto(r, "escaped")
    /\ UNCHANGED <<redeliveryCount, questionVars, backend, requestVars,
                   observerVars>>

\* autoretry_for: the same task id is published again, and the old message
\* is acknowledged afterwards, at once when s = r.
Autoretry(r, s) ==
    LET j == run[r].job IN
    /\ run[r].pc = "escaped"
    /\ RetriesLeft(r)
    /\ s = r \/ run[s].pc = "idle"
    /\ run' = [t \in Runs |->
                  IF t = s THEN Message(j, run[r].retries + 1, FALSE)
                  ELSE IF t = r THEN [run[r] EXCEPT !.pc = "ack"] ELSE run[t]]
    /\ StoreResult(j, "RETRY")
    /\ UNCHANGED <<rowVars, questionVars, requestVars, observerVars, faults>>

\* The task raised for good, or its retries are used up.
ReportFailure(r) ==
    /\ \/ run[r].pc = "raise"
       \/ run[r].pc = "escaped" /\ ~RetriesLeft(r)
    /\ StoreResult(run[r].job, "FAILURE")
    /\ Goto(r, "ack")
    /\ UNCHANGED <<rowVars, questionVars, requestVars, observerVars, faults>>

ReportSuccess(r) ==
    /\ run[r].pc \in {"report", "return"}
    /\ StoreResult(run[r].job, "SUCCESS")
    /\ Goto(r, "ack")
    /\ UNCHANGED <<rowVars, questionVars, requestVars, observerVars, faults>>

Acknowledge(r) ==
    /\ run[r].pc = "ack"
    /\ Free(r)
    /\ UNCHANGED <<rowVars, questionVars, backend, requestVars, observerVars,
                   faults>>

-----------------------------------------------------------------------------
(***************************************************************************)
(* reconcile_stuck_jobs: load the stuck rows, then for each job ask Celery *)
(* and write.                                                              *)
(***************************************************************************)

\* A row that is PENDING grows older than the cutoff; nothing else depends on its age.
WatchdogLoad(j) ==
    /\ watchdog[j] = "idle"
    /\ status[j] = "PENDING"
    /\ watchdog' = [watchdog EXCEPT ![j] = "loaded"]
    /\ UNCHANGED <<rowVars, questionVars, backend, run, requestVars, mirror,
                   faults>>

\* Celery says terminal: mirror it.  PENDING: the message is taken for lost.
\* In progress, or the backend cannot be read: leave the job alone.
VerdictMutant(j) == IF backend[j] \in Terminal THEN backend[j] ELSE "idle"
Verdict(j) ==
    IF backend[j] \in Terminal THEN backend[j]
    ELSE IF backend[j] = "PENDING" THEN "lost" ELSE "idle"

WatchdogRead(j) ==
    /\ watchdog[j] = "loaded"
    /\ \/ /\ watchdog' = [watchdog EXCEPT ![j] = Verdict(j)]
          /\ UNCHANGED faults
       \/ /\ watchdog' = [watchdog EXCEPT ![j] = "idle"]
          /\ Fault
    /\ UNCHANGED <<rowVars, questionVars, backend, run, requestVars, mirror>>

WatchdogMirror(j) ==
    /\ watchdog[j] \in Terminal
    /\ TryUpdateStatus(j, watchdog[j])
    /\ watchdog' = [watchdog EXCEPT ![j] = "idle"]
    /\ UNCHANGED <<redeliveryCount, questionVars, backend, run,
                   requestVars, mirror>>

\* FAILURE is mirrored into Celery only if the row took it.
WatchdogGivesUp(j) ==
    /\ watchdog[j] = "lost"
    /\ TryUpdateStatus(j, "FAILURE")
    /\ watchdog' = [watchdog EXCEPT ![j] =
           IF status'[j] = "FAILURE" /\ faults' = faults THEN "notify" ELSE "idle"]
    /\ UNCHANGED <<redeliveryCount, questionVars, backend, run,
                   requestVars, mirror>>

WatchdogNotifies(j) ==
    /\ watchdog[j] = "notify"
    /\ \/ StoreResult(j, "FAILURE") /\ UNCHANGED faults
       \/ Fault /\ UNCHANGED backend
    /\ watchdog' = [watchdog EXCEPT ![j] = "idle"]
    /\ UNCHANGED <<rowVars, questionVars, run, requestVars, mirror>>

-----------------------------------------------------------------------------
(***************************************************************************)
(* get_active_tasks: a row that is not terminal although Celery is.        *)
(***************************************************************************)

ActiveTasksRead(j) ==
    /\ mirror[j] = "idle"
    /\ status[j] = "PENDING"
    /\ backend[j] \in Terminal
    /\ mirror' = [mirror EXCEPT ![j] = backend[j]]
    /\ UNCHANGED <<rowVars, questionVars, backend, run, requestVars, watchdog,
                   faults>>

ActiveTasksSync(j) ==
    /\ mirror[j] # "idle"
    /\ TryUpdateStatus(j, mirror[j])
    /\ mirror' = [mirror EXCEPT ![j] = "idle"]
    /\ UNCHANGED <<redeliveryCount, questionVars, backend, run,
                   requestVars, watchdog>>

-----------------------------------------------------------------------------
(***************************************************************************)
(* The specification                                                       *)
(***************************************************************************)

ApiStep(j) ==
    \/ Generate(j)
    \/ RetryRefused(j)
    \/ \E k \in Jobs : RetryAccepted(j, k)
    \/ RetryCommit(j)
    \/ \E r \in Runs : Publish(j, r)
    \/ PublishFails(j)
    \/ UndoJob(j)
    \/ RequestDies(j)
    \/ DeleteQuestions(j)

BrokerStep(r) ==
    \/ Deliver(r)
    \/ DeliverRevoked(r)
    \/ WorkerLost(r)
    \/ \E s \in Runs : ChannelLost(r, s)
    \/ TimeLimit(r)

TaskStep(r) ==
    \/ CheckJob(r)
    \/ RepairJob(r)
    \/ CountRedelivery(r)
    \/ RejectGeneration(r)
    \/ DropMessage(r)
    \/ SaveGeneration(r)
    \/ SaveUnlinked(r)
    \/ DiscardGeneration(r)
    \/ RunFails(r)
    \/ RunFailsForGood(r)
    \/ FailForGood(r)
    \/ FailOrRetry(r)
    \/ \E s \in Runs : Autoretry(r, s)
    \/ ReportFailure(r)
    \/ ReportSuccess(r)
    \/ Acknowledge(r)

WatchdogStep(j) ==
    \/ WatchdogLoad(j)
    \/ WatchdogRead(j)
    \/ WatchdogMirror(j)
    \/ WatchdogGivesUp(j)
    \/ WatchdogNotifies(j)

JobStep(j) ==
    \/ ApiStep(j)
    \/ Expire(j)
    \/ WatchdogStep(j)
    \/ ActiveTasksRead(j)
    \/ ActiveTasksSync(j)

RunStep(r) == BrokerStep(r) \/ TaskStep(r) \/ RejectWithoutRag(r)

Next ==
    \/ \E j \in Jobs : JobStep(j)
    \/ \E r \in Runs : RunStep(r)

Spec == Init /\ [][Next]_vars

\* Workers execute what they took, beat keeps calling the watchdog, and time
\* passes.  Neither the request, the broker nor a user has to do anything.
Fairness ==
    /\ \A r \in Runs : WF_vars(TaskStep(r))
    /\ \A j \in Jobs : WF_vars(WatchdogStep(j)) /\ WF_vars(Expire(j))

FairSpec == Spec /\ Fairness

-----------------------------------------------------------------------------
(***************************************************************************)
(* Properties                                                              *)
(***************************************************************************)

\* _check_job_at_start, _save_generation: however often the message of a job
\* is redelivered, retried or run in parallel, at most one set of questions
\* is ever stored for it and the quota is charged once.  (A job whose row the
\* request withdrew is not protected: "idempotency is off for that run".)
AtMostOneSet == \A j \in Jobs : saved[j] <= 1 \/ status[j] = "DELETED"

\* _save_generation commits SUCCESS together with the questions and every
\* other writer only mirrors or repairs: a row says SUCCESS only if its
\* questions were stored.  Nor does a Celery SUCCESS, which /active-tasks and
\* the watchdog mirror and the WebSocket reports, stand for a run that stored
\* nothing, unless the request withdrew the job.
SuccessMeansSaved ==
    \A j \in Jobs :
        /\ status[j] = "SUCCESS" => saved[j] = 1
        /\ backend[j] = "SUCCESS" => saved[j] = 1 \/ status[j] = "DELETED"

\* retry_generation: once a job was retried it stays without questions, so a
\* slow run or a stale message never adds a second set next to the retry's.
RetriedJobStaysEmpty ==
    \A k \in Jobs : parent[k] # NoJob => ~linked[parent[k]]

\* _try_update_job_status (question_tasks.py:141): "A SUCCESS row is never
\* changed".  TLC refutes it (README, section 4).
SuccessRowNeverChanged ==
    [][\A j \in Jobs : status[j] = "SUCCESS"
                       => status'[j] \in {"SUCCESS", "DELETED"}]_vars

\* _MAX_REDELIVERIES (question_tasks.py:270): the Nth redelivery is rejected
\* without running, "the original run plus at most N-1 redelivered runs".
\* TLC refutes it (README, section 4).
RedeliveredRunsBounded == \A j \in Jobs : restarts[j] <= MaxRedeliveries - 1

\* The job as its user sees it.  Questions once stored decide, whatever the
\* status column says.
Outcome(j) ==
    CASE status[j] = "NONE"    -> "absent"
      [] status[j] = "DELETED" -> "withdrawn"
      [] status[j] = "PENDING" -> "open"
      [] OTHER                 -> IF saved[j] > 0 THEN "done" ELSE "givenUp"

Lifecycle == INSTANCE JobLifecycle
    WITH outcome <- [j \in Jobs |-> Outcome(j)], questions <- linked

\* All the machinery together, whatever is lost, repeated or late, does to a
\* job only what JobLifecycle allows.
ImplementsLifecycle == Lifecycle!Spec

\* No job is left PENDING for ever, whatever is lost: the watchdog, the
\* expiry of Celery's result and the redelivery limit end it.
JobsSettle ==
    \A j \in Jobs : status[j] = "PENDING" ~> status[j] # "PENDING"

=============================================================================
