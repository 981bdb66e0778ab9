----------------------------- MODULE ImportJob -----------------------------
(***************************************************************************)
(* The import of exam results: the rows of import_jobs, the Celery message *)
(* of each job and the run that executes it, the attempts and submissions  *)
(* an import stores, the watchdog, and the deletion of imported results.   *)
(*                                                                         *)
(* backend/api/submissions.py writes a job and publishes its message;      *)
(* backend/tasks/import_submissions_task.py runs it through                *)
(* backend/services/import_service.py; backend/tasks/maintenance_tasks.py  *)
(* fails jobs nobody finished.  All jobs here import into one exam.        *)
(*                                                                         *)
(* A run keeps one transaction open from its first SELECT to its last      *)
(* commit.  What it inserted stays invisible until then and blocks another *)
(* run that inserts the same key.  A run ends with its worker, so a job    *)
(* never has two: a lost connection cancels the task                       *)
(* (worker_cancel_long_running_tasks_on_connection_loss), the task's time  *)
(* limit lies below the broker's consumer timeout.                         *)
(***************************************************************************)
EXTENDS Integers, FiniteSets

CONSTANTS
    Jobs,        \* ids of import_jobs
    Attempts,    \* the attempts of the source files, by source_attempt_id
    Students,    \* the students; one submission per student and exam
    Owner,       \* the student of an attempt
    File,        \* the attempts in the source file of a job (in any order)
    Malformed,   \* attempts whose INSERT breaks another constraint than a key
    NoJob,       \* "no job", for an attempt that is not stored
    MaxRetries,  \* max_retries: 2 in the code
    MaxFaults,   \* bound on lost workers, lost messages and database errors
    MaxDeletes   \* bound on deletions of the exam's results

ASSUME ConstantsAssumption ==
    /\ Owner \in [Attempts -> Students]
    /\ File \in [Jobs -> (SUBSET Attempts) \ {{}}]
    /\ Malformed \subseteq Attempts
    /\ IsFiniteSet(Attempts)
    /\ NoJob \notin Jobs
    /\ MaxRetries \in Nat
    /\ MaxFaults \in Nat
    /\ MaxDeletes \in Nat

VARIABLES
    status,      \* job.status, "none" before the INSERT
    processed,   \* job.rows_processed
    errorLog,    \* the kinds of entries in job.error_log
    reaper,      \* has the watchdog loaded the job and not yet written it?
    request,     \* the request that enqueues the job
    run,         \* the job's message, or the run that executes it
    storedBy,    \* the job that stored the attempt, or NoJob
    submission,  \* "none", or the grade_status of the student's submission
    faults, deletes

jobVars == <<status, processed, errorLog>>
resultVars == <<storedBy, submission>>
vars == <<jobVars, reaper, request, run, resultVars, faults, deletes>>

Open == {"queued", "running"}
Terminal == {"succeeded", "partial", "failed"}
Entries == {"enqueue", "interrupted", "failure", "row", "grading"}

\* Points of a run: "parse" to "grade" hold the open transaction,
\* "transient" and "permanent" are the task's except clauses, "ack" is the
\* time between the last commit and the acknowledgement.
InTransaction == {"parse", "rows", "submission", "attempt", "grade"}
Executing == InTransaction \cup {"transient", "permanent", "ack"}
PCs == {"none", "queued"} \cup Executing

Stored == {a \in Attempts : storedBy[a] # NoJob}

\* What a run knows: the attempts still to do and the one in hand; the
\* submissions it fetched and those it created; the attempts it inserted; the
\* errors it collected.  gone: fetched submissions that were deleted since;
\* wiped: did any deletion happen since the run looked (history)?
EmptyRun == [pc |-> "none", retries |-> 0, todo |-> {}, hand |-> {},
             cached |-> {}, made |-> {}, new |-> {}, errors |-> {},
             gone |-> {}, wiped |-> FALSE]

Message(n) == [EmptyRun EXCEPT !.pc = "queued", !.retries = n]

RunOK(r) ==
    /\ r.pc \in PCs
    /\ r.retries \in 0..MaxRetries
    /\ r.todo \in SUBSET Attempts
    /\ r.hand \in SUBSET Attempts
    /\ r.cached \in SUBSET Students
    /\ r.made \in SUBSET Students
    /\ r.new \in SUBSET Attempts
    /\ r.errors \in SUBSET Entries
    /\ r.gone \in SUBSET Students
    /\ r.wiped \in BOOLEAN

TypeOK ==
    /\ status \in [Jobs -> {"none"} \cup Open \cup Terminal]
    /\ processed \in [Jobs -> 0..Cardinality(Attempts)]
    /\ errorLog \in [Jobs -> SUBSET Entries]
    /\ reaper \in [Jobs -> BOOLEAN]
    /\ request \in [Jobs -> {"none", "committed", "done"}]
    /\ DOMAIN run = Jobs
    /\ \A j \in Jobs : RunOK(run[j])
    /\ storedBy \in [Attempts -> Jobs \cup {NoJob}]
    /\ submission \in [Students -> {"none", "pending", "graded", "failed"}]
    /\ faults \in 0..MaxFaults
    /\ deletes \in 0..MaxDeletes

Init ==
    /\ status = [j \in Jobs |-> "none"]
    /\ processed = [j \in Jobs |-> 0]
    /\ errorLog = [j \in Jobs |-> {}]
    /\ reaper = [j \in Jobs |-> FALSE]
    /\ request = [j \in Jobs |-> "none"]
    /\ run = [j \in Jobs |-> EmptyRun]
    /\ storedBy = [a \in Attempts |-> NoJob]
    /\ submission = [s \in Students |-> "none"]
    /\ faults = 0
    /\ deletes = 0

-----------------------------------------------------------------------------
Fault == faults < MaxFaults /\ faults' = faults + 1

Goto(j, point) == run' = [run EXCEPT ![j].pc = point]

SetStatus(j, new) == status' = [status EXCEPT ![j] = new]

\* The end of a run's transaction without a commit: only the message's retry
\* count outlives it.
Rollback(j, point) ==
    run' = [run EXCEPT ![j] = [EmptyRun EXCEPT !.pc = point, !.retries = run[j].retries]]

-----------------------------------------------------------------------------
(***************************************************************************)
(* The request (_enqueue_import)                                           *)
(***************************************************************************)

\* create_queued_job commits the row before the message is published.
CreateQueuedJob(j) ==
    /\ request[j] = "none"
    /\ request' = [request EXCEPT ![j] = "committed"]
    /\ SetStatus(j, "queued")
    /\ UNCHANGED <<processed, errorLog, reaper, run, resultVars, faults, deletes>>

Publish(j) ==
    /\ request[j] = "committed"
    /\ request' = [request EXCEPT ![j] = "done"]
    /\ run' = [run EXCEPT ![j] = Message(0)]
    /\ UNCHANGED <<jobVars, reaper, resultVars, faults, deletes>>

\* apply_async raised: a best-effort FAILED on the row; that commit may raise too.
PublishFails(j) ==
    /\ request[j] = "committed"
    /\ request' = [request EXCEPT ![j] = "done"]
    /\ Fault
    /\ \/ /\ SetStatus(j, "failed")
          /\ errorLog' = [errorLog EXCEPT ![j] = {"enqueue"}]
       \/ UNCHANGED <<status, errorLog>>
    /\ UNCHANGED <<processed, reaper, run, resultVars, deletes>>

\* The process dies inside the request, or the broker loses the message.
RequestDies(j) ==
    /\ Fault
    /\ request[j] = "committed"
    /\ request' = [request EXCEPT ![j] = "done"]
    /\ UNCHANGED <<jobVars, reaper, run, resultVars, deletes>>

MessageLost(j) ==
    /\ Fault
    /\ run[j].pc = "queued"
    /\ run' = [run EXCEPT ![j] = EmptyRun]
    /\ UNCHANGED <<jobVars, reaper, request, resultVars, deletes>>

-----------------------------------------------------------------------------
(***************************************************************************)
(* The run (import_submissions, ImportService.commit)                      *)
(***************************************************************************)

\* commit resets the row of its job, whatever the row says by now.
StartRun(j) ==
    /\ run[j].pc = "queued"
    /\ SetStatus(j, "running")
    /\ processed' = [processed EXCEPT ![j] = 0]
    /\ errorLog' = [errorLog EXCEPT ![j] = {}]
    /\ Goto(j, "parse")
    /\ UNCHANGED <<reaper, request, resultVars, faults, deletes>>

\* The source cannot be decoded, the exam is gone, or the driver is unknown:
\* an error before the row is touched.
RejectMessage(j) ==
    /\ run[j].pc = "queued"
    /\ Goto(j, "permanent")
    /\ UNCHANGED <<jobVars, reaper, request, resultVars, faults, deletes>>

\* The driver parsed the source, _validate_payload accepted it, students and
\* classes exist; _load_existing_source_ids read what this exam already has.
LoadKnown(j) ==
    /\ run[j].pc = "parse"
    /\ run' = [run EXCEPT ![j] = [@ EXCEPT !.pc = "rows", !.todo = File[j] \ Stored]]
    /\ UNCHANGED <<jobVars, reaper, request, resultVars, faults, deletes>>

\* _get_or_create_submission for the next attempt of the file: from the
\* run's cache, from the table, or to be inserted.
NextAttempt(j) ==
    /\ run[j].pc = "rows"
    /\ \E a \in run[j].todo :
          LET s == Owner[a]
              found == s \in run[j].cached \/ submission[s] # "none"
          IN  run' = [run EXCEPT ![j] =
                 [run[j] EXCEPT !.hand = {a},
                                !.todo = @ \ {a},
                                !.cached = IF found THEN @ \cup {s} ELSE @,
                                !.pc = IF found THEN "attempt" ELSE "submission"]]
    /\ UNCHANGED <<jobVars, reaper, request, resultVars, faults, deletes>>

\* Who a run waits for: the other run inserted the same key and is not done.
BlockedBy(j, k) ==
    /\ j # k
    /\ \E a \in run[j].hand :
          \/ run[j].pc = "submission" /\ Owner[a] \in run[k].made
          \/ run[j].pc = "attempt" /\ a \in run[k].new

Blocked(j) == \E k \in Jobs : BlockedBy(j, k)

\* The INSERT of the submission.  When another transaction committed one in
\* between, the unique key on (exam, student) ends the whole pipeline.
InsertSubmission(j) ==
    /\ run[j].pc = "submission"
    /\ ~Blocked(j)
    /\ \A a \in run[j].hand : submission[Owner[a]] = "none"
    /\ LET s == {Owner[a] : a \in run[j].hand}
       IN  run' = [run EXCEPT ![j] = [run[j] EXCEPT !.made = @ \cup s,
                                                    !.cached = @ \cup s,
                                                    !.pc = "attempt"]]
    /\ UNCHANGED <<jobVars, reaper, request, resultVars, faults, deletes>>

\* The INSERT of the attempt in its SAVEPOINT: stored; skipped, because
\* another import committed the same attempt; or a row error, when the
\* submission the run fetched has been deleted or the row is malformed.
Insertable(j, a) == Owner[a] \notin run[j].gone /\ a \notin Malformed

AttemptAfterInsert(j, a) ==
    [run[j] EXCEPT !.hand = {}, !.pc = "rows",
                   !.new = IF Insertable(j, a) /\ a \notin Stored THEN @ \cup {a} ELSE @,
                   !.errors = IF Insertable(j, a) THEN @ ELSE @ \cup {"row"}]

InsertAttempt(j) ==
    /\ run[j].pc = "attempt"
    /\ ~Blocked(j)
    /\ \E a \in run[j].hand : run' = [run EXCEPT ![j] = AttemptAfterInsert(j, a)]
    /\ UNCHANGED <<jobVars, reaper, request, resultVars, faults, deletes>>

RowsDone(j) ==
    /\ run[j].pc = "rows"
    /\ run[j].todo = {}
    /\ Goto(j, "grade")
    /\ UNCHANGED <<jobVars, reaper, request, resultVars, faults, deletes>>

\* _finalise_job: the verdict from the rows stored and the errors collected.
Verdict(rows, errors) ==
    IF rows = 0 /\ errors # {} THEN "failed"
    ELSE IF errors # {} THEN "partial" ELSE "succeeded"

\* rows_processed: persisted rows, neither parsed nor skipped ones.
RowsReportedMutant(j) == Cardinality(File[j])
RowsReported(j) == Cardinality(run[j].new)

\* The students whose submissions the run touched, and what becomes of every
\* submission when the grading of those in failed raised.
Touched(j) == {Owner[a] : a \in run[j].new}

SubmissionsAfterMutant(j, failed) ==
    [s \in Students |-> IF s \in Touched(j) \ failed THEN "graded"
                        ELSE IF s \in run[j].made THEN "pending" ELSE submission[s]]

SubmissionsAfter(j, failed) ==
    [s \in Students |-> IF s \in failed THEN "failed"
                        ELSE IF s \in Touched(j) THEN "graded"
                        ELSE IF s \in run[j].made THEN "pending" ELSE submission[s]]

\* _grade_touched_submissions, _finalise_job and the last commit: everything
\* the run inserted becomes visible.  The row's error_log is written only
\* when the run has errors to add: an entry the watchdog made since the run
\* loaded the row survives.
FinishRun(j) ==
    \E failed \in SUBSET Touched(j) :
        LET errors == run[j].errors \cup IF failed = {} THEN {} ELSE {"grading"}
        IN  /\ run[j].pc = "grade"
            /\ storedBy' = [a \in Attempts |-> IF a \in run[j].new THEN j ELSE storedBy[a]]
            /\ submission' = SubmissionsAfter(j, failed)
            /\ processed' = [processed EXCEPT ![j] = RowsReported(j)]
            /\ SetStatus(j, Verdict(RowsReported(j), errors))
            /\ errorLog' = [errorLog EXCEPT ![j] = IF errors = {} THEN @ ELSE errors]
            /\ Rollback(j, "ack")
            /\ UNCHANGED <<reaper, request, faults, deletes>>

-----------------------------------------------------------------------------
(***************************************************************************)
(* Failure, retry and loss of a run                                        *)
(***************************************************************************)

\* The pipeline raised: its transaction is gone, _fail_job commits FAILED on
\* the row over what the row says by now, and the exception goes on to the
\* task, which retries database and connection errors.
PipelineFails(j, kind) ==
    /\ run[j].pc \in InTransaction
    /\ Rollback(j, kind)
    /\ SetStatus(j, "failed")
    /\ errorLog' = [errorLog EXCEPT ![j] = {"failure"}]
    /\ UNCHANGED <<processed, reaper, request, resultVars, deletes>>

DatabaseError(j) == Fault /\ PipelineFails(j, "transient")

\* The source does not parse, has no attempt, or answers foreign questions.
InvalidSource(j) ==
    /\ run[j].pc = "parse"
    /\ PipelineFails(j, "permanent")
    /\ UNCHANGED faults

\* Another import created the submission between the SELECT and the INSERT:
\* an IntegrityError, which is a DatabaseError and so counts as transient.
SubmissionConflict(j) ==
    /\ run[j].pc = "submission"
    /\ ~Blocked(j)
    /\ \E a \in run[j].hand : submission[Owner[a]] # "none"
    /\ PipelineFails(j, "transient")
    /\ UNCHANGED faults

\* Two imports wait for each other's keys: PostgreSQL aborts one of them.
AbortDeadlock(j) ==
    /\ \E k \in Jobs : BlockedBy(j, k) /\ BlockedBy(k, j)
    /\ PipelineFails(j, "transient")
    /\ UNCHANGED faults

\* The row cannot even be marked: the database is away before the job is
\* loaded, or when _fail_job commits.
RunFailsSilently(j) ==
    /\ Fault
    /\ run[j].pc \in {"queued"} \cup InTransaction
    /\ Rollback(j, "transient")
    /\ UNCHANGED <<jobVars, reaper, request, resultVars, deletes>>

\* autoretry publishes the message again.
RetryAllowed(j) == run[j].retries < MaxRetries

RetryLater(j) ==
    /\ run[j].pc = "transient"
    /\ RetryAllowed(j)
    /\ run' = [run EXCEPT ![j] = Message(run[j].retries + 1)]
    /\ UNCHANGED <<jobVars, reaper, request, resultVars, faults, deletes>>

\* _mark_terminal_failure, best effort, then the task ends.
MarkTerminalFailure(j) ==
    /\ \/ run[j].pc = "permanent"
       \/ run[j].pc = "transient" /\ ~RetryAllowed(j)
    /\ run' = [run EXCEPT ![j] = EmptyRun]
    /\ \/ /\ SetStatus(j, "failed")
          /\ errorLog' = [errorLog EXCEPT ![j] = @ \cup {"failure"}]
          /\ UNCHANGED faults
       \/ Fault /\ UNCHANGED <<status, errorLog>>
    /\ UNCHANGED <<processed, reaper, request, resultVars, deletes>>

Acknowledge(j) ==
    /\ run[j].pc = "ack"
    /\ run' = [run EXCEPT ![j] = EmptyRun]
    /\ UNCHANGED <<jobVars, reaper, request, resultVars, faults, deletes>>

\* The worker goes away with its broker connection: acks_late, so the broker
\* delivers the message again.
WorkerLost(j) ==
    /\ Fault
    /\ run[j].pc \in Executing
    /\ Rollback(j, "queued")
    /\ UNCHANGED <<jobVars, reaper, request, resultVars, deletes>>

\* The pool process is killed (memory, time_limit): Celery acknowledges the
\* message, the row keeps what it says.
ProcessKilled(j) ==
    /\ Fault
    /\ run[j].pc \in Executing
    /\ run' = [run EXCEPT ![j] = EmptyRun]
    /\ UNCHANGED <<jobVars, reaper, request, resultVars, deletes>>

-----------------------------------------------------------------------------
(***************************************************************************)
(* The watchdog (reap_stuck_import_jobs) and the deletion of results       *)
(***************************************************************************)

\* The watchdog reads stuck jobs without a lock ...  Any open job may be older
\* than 30 minutes: created_at counts the time in the queue and the retries.
StuckMutant(j) == status[j] = "running"
Stuck(j) == status[j] \in Open

ReaperLoads(j) ==
    /\ ~reaper[j]
    /\ Stuck(j)
    /\ reaper' = [reaper EXCEPT ![j] = TRUE]
    /\ UNCHANGED <<jobVars, request, run, resultVars, faults, deletes>>

\* ... and writes FAILED and its copy of the log, whatever they are by now.
ReaperFails(j) ==
    /\ reaper[j]
    /\ reaper' = [reaper EXCEPT ![j] = FALSE]
    /\ \/ /\ SetStatus(j, "failed")
          /\ errorLog' = [errorLog EXCEPT ![j] = {"interrupted"}]
          /\ UNCHANGED faults
       \/ Fault /\ UNCHANGED <<status, errorLog>>
    /\ UNCHANGED <<processed, request, run, resultVars, deletes>>

\* delete_import: attempts and submissions of the exam in one transaction
\* with the audit entry.  It waits for runs that inserted attempts under the
\* submissions it deletes, and does not see what other runs have not yet
\* committed.
DeleteResults ==
    /\ deletes < MaxDeletes
    /\ \E s \in Students : submission[s] # "none"
    /\ \A j \in Jobs : \A a \in run[j].new : Owner[a] \in run[j].made
    /\ storedBy' = [a \in Attempts |-> NoJob]
    /\ submission' = [s \in Students |-> "none"]
    /\ run' = [j \in Jobs |->
          IF run[j].pc \in InTransaction
          THEN [run[j] EXCEPT !.wiped = TRUE,
                              !.gone = @ \cup (run[j].cached \ run[j].made)]
          ELSE run[j]]
    /\ deletes' = deletes + 1
    /\ UNCHANGED <<jobVars, reaper, request, faults>>

-----------------------------------------------------------------------------
RequestStep(j) ==
    \/ CreateQueuedJob(j) \/ Publish(j) \/ PublishFails(j) \/ RequestDies(j)

Progress(j) ==
    \/ StartRun(j) \/ LoadKnown(j) \/ RowsDone(j) \/ FinishRun(j)
    \/ NextAttempt(j) \/ InsertSubmission(j) \/ SubmissionConflict(j) \/ InsertAttempt(j)
    \/ RetryLater(j) \/ MarkTerminalFailure(j) \/ Acknowledge(j)

Trouble(j) ==
    \/ RejectMessage(j) \/ InvalidSource(j) \/ DatabaseError(j)
    \/ RunFailsSilently(j) \/ AbortDeadlock(j) \/ MessageLost(j)
    \/ WorkerLost(j) \/ ProcessKilled(j)

Watch(j) == ReaperLoads(j) \/ ReaperFails(j)

Next ==
    \/ \E j \in Jobs : RequestStep(j) \/ Progress(j) \/ Trouble(j) \/ Watch(j)
    \/ DeleteResults

Spec == Init /\ [][Next]_vars

\* Workers go on with what they hold, PostgreSQL resolves deadlocks, time
\* passes and beat keeps calling the watchdog.
Fairness ==
    \A j \in Jobs : /\ WF_vars(Progress(j))
                    /\ WF_vars(AbortDeadlock(j))
                    /\ WF_vars(Watch(j))

FairSpec == Spec /\ Fairness

-----------------------------------------------------------------------------
(***************************************************************************)
(* Properties                                                              *)
(***************************************************************************)

\* _grade_touched_submissions grades or flags every submission an import
\* adds an attempt to: none is left "pending", which reads as waiting for
\* the teacher.
AttemptsGradedOrFlagged ==
    \A a \in Stored : submission[Owner[a]] \in {"graded", "failed"}

\* _finalise_job reports the rows a run stored: operators reading "10
\* verarbeitet" find 10 rows.  Attempts skipped because another import, or
\* an earlier run, stored them do not count.  A run that ends SUCCEEDED leaves
\* every attempt of its file in the exam, whoever stored it, unless results
\* were deleted while it ran.
ReportsWhatItStored ==
    [][\A j \in Jobs :
          run[j].pc = "grade" /\ run'[j].pc = "ack" =>
              /\ processed'[j] = Cardinality({a \in Attempts : storedBy[a] # storedBy'[a]})
              /\ \A a \in Attempts : storedBy[a] # storedBy'[a] => storedBy[a] = NoJob
              /\ status'[j] = "succeeded" =>
                    run[j].wiped \/ \A a \in File[j] : storedBy'[a] # NoJob
      ]_vars

\* Whatever is lost or killed, the polling client sees a terminal status in
\* the end, and for good (reap_stuck_import_jobs).
JobConverges == \A j \in Jobs : <>[](status[j] \in {"none"} \cup Terminal)

\* The docstring of _finalise_job: "FAILED means nothing useful was
\* imported."  TLC refutes it (README, section 4).
FailedImportStoredNothing ==
    \A j \in Jobs : status[j] = "failed" => \A a \in Attempts : storedBy[a] # j

=============================================================================
