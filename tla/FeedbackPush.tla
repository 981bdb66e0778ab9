---------------------------- MODULE FeedbackPush ----------------------------
(***************************************************************************)
(* Sending reviewed marks back to Moodle: the rows of                      *)
(* moodle_feedback_push_jobs, the Celery messages that carry them, the     *)
(* runs that execute those messages, and the watchdog.                     *)
(*                                                                         *)
(* backend/api/moodle_feedback_push.py creates a job and publishes it;     *)
(* backend/services/moodle_feedback/ claims the job, collects the marks of *)
(* the fully reviewed submissions and calls Moodle.  Nothing stops a       *)
(* second job for the same exam.                                           *)
(*                                                                         *)
(* The broker may deliver a message again when its worker is lost, and may *)
(* do so while the first run still works.  Moodle may store what it is     *)
(* sent although the call reports an error.                                *)
(***************************************************************************)
EXTENDS Integers, FiniteSets

CONSTANTS
    Jobs,        \* push jobs of one exam
    Runs,        \* slots for messages and the runs that hold them (bound)
    NoJob,       \* the job of an empty slot
    Students,    \* students with a submission
    Slotless,    \* those none of whose questions has a moodle_slot
    MaxMark,     \* marks are 0..MaxMark
    MaxReviews,  \* bound on reviews while pushes go on
    MaxFaults    \* bound on lost workers, duplicated messages, failed writes

ASSUME ConstantsAssumption ==
    /\ NoJob \notin Jobs
    /\ IsFiniteSet(Students)
    /\ Slotless \subseteq Students
    /\ MaxMark \in Nat
    /\ MaxReviews \in Nat
    /\ MaxFaults \in Nat

VARIABLES
    status,      \* job.status, "none" before the INSERT
    counted,     \* the students behind students_pushed, _skipped and _failed
    reaper,      \* has the watchdog loaded the job and not yet written it?
    request,     \* the request that creates the job
    run,         \* the slots
    mark,        \* total_points_awarded of each submission
    reviewed,    \* is the submission fully_reviewed?
    final,       \* the marks a submission had while fully reviewed (history)
    moodle,      \* the mark Moodle stores, or NoMark
    sent,        \* how often a job sent a student's mark (history)
    reviews, faults

jobVars == <<status, counted, reaper, request>>
gradeVars == <<mark, reviewed, final, reviews>>
moodleVars == <<moodle, sent>>
vars == <<jobVars, run, gradeVars, moodleVars, faults>>

NoMark == -1
Marks == 0..MaxMark
Terminal == {"completed", "failed"}

\* Points of a run: "payload" and "probe" precede the first mark sent, "plugin"
\* and "gradebook" send, "finish" has the results, "error" is the except clause.
Working == {"payload", "probe", "plugin", "gradebook", "finish", "error"}
PCs == {"idle", "queued", "ack"} \cup Working

\* What a run holds: the marks of its payload, the students it has still to
\* send, and the students by the bucket of their result.
Buckets == [ok : SUBSET Students, notFound : SUBSET Students, failed : SUBSET Students]
Result(ok, unknown, failed) == [ok |-> ok, notFound |-> unknown, failed |-> failed]
NoBuckets == Result({}, {}, {})

Slot == [pc : PCs, job : Jobs \cup {NoJob}, payload : [Students -> Marks \cup {NoMark}],
         todo : SUBSET Students, results : Buckets]

NoPayload == [s \in Students |-> NoMark]

Held(pc, j, payload, todo, results) ==
    [pc |-> pc, job |-> j, payload |-> payload, todo |-> todo, results |-> results]
Message(j) == Held("queued", j, NoPayload, {}, NoBuckets)
EmptySlot == Held("idle", NoJob, NoPayload, {}, NoBuckets)

\* The buckets and the students still to be sent share nobody: the CHECK of the
\* table, pushed + skipped + failed = in run.
Apart(b, todo) ==
    /\ b.ok \cap (b.notFound \cup b.failed \cup todo) = {}
    /\ b.notFound \cap (b.failed \cup todo) = {}
    /\ b.failed \cap todo = {}

TypeOK ==
    /\ status \in [Jobs -> {"none", "queued", "processing"} \cup Terminal]
    /\ counted \in [Jobs -> Buckets] /\ \A j \in Jobs : Apart(counted[j], {})
    /\ reaper \in [Jobs -> BOOLEAN]
    /\ request \in [Jobs -> {"none", "committed", "done"}]
    /\ run \in [Runs -> Slot]
    /\ mark \in [Students -> Marks]
    /\ reviewed \in [Students -> BOOLEAN]
    /\ final \in [Students -> SUBSET Marks]
    /\ moodle \in [Students -> Marks \cup {NoMark}]
    /\ sent \in [Jobs -> [Students -> Nat]]
    /\ reviews \in 0..MaxReviews
    /\ faults \in 0..MaxFaults

Init ==
    /\ status = [j \in Jobs |-> "none"]
    /\ counted = [j \in Jobs |-> NoBuckets]
    /\ reaper = [j \in Jobs |-> FALSE]
    /\ request = [j \in Jobs |-> "none"]
    /\ run = [r \in Runs |-> EmptySlot]
    /\ mark = [s \in Students |-> 0]
    /\ reviewed = [s \in Students |-> FALSE]
    /\ final = [s \in Students |-> {}]
    /\ moodle = [s \in Students |-> NoMark]
    /\ sent = [j \in Jobs |-> [s \in Students |-> 0]]
    /\ reviews = 0
    /\ faults = 0

-----------------------------------------------------------------------------
Fault == faults < MaxFaults /\ faults' = faults + 1

Hold(r, held) == run' = [run EXCEPT ![r] = held]
Goto(r, point) ==
    Hold(r, Held(point, run[r].job, run[r].payload, run[r].todo, run[r].results))
SetStatus(j, new) == status' = [status EXCEPT ![j] = new]

\* The submissions as the reviewers leave them: a review sets a mark and says
\* whether everything is reviewed now.
Review(s, m, done) ==
    /\ reviews < MaxReviews
    /\ reviews' = reviews + 1
    /\ mark' = [mark EXCEPT ![s] = m]
    /\ reviewed' = [reviewed EXCEPT ![s] = done]
    /\ final' = [final EXCEPT ![s] = IF done THEN @ \cup {m} ELSE @]
    /\ UNCHANGED <<jobVars, run, moodleVars, faults>>

-----------------------------------------------------------------------------
(***************************************************************************)
(* The request (push_feedback)                                             *)
(***************************************************************************)

CreateJob(j) ==
    /\ request[j] = "none"
    /\ request' = [request EXCEPT ![j] = "committed"]
    /\ SetStatus(j, "queued")
    /\ UNCHANGED <<counted, reaper, run, gradeVars, moodleVars, faults>>

Publish(j, r) ==
    /\ request[j] = "committed"
    /\ run[r].pc = "idle"
    /\ request' = [request EXCEPT ![j] = "done"]
    /\ Hold(r, Message(j))
    /\ UNCHANGED <<status, counted, reaper, gradeVars, moodleVars, faults>>

\* apply_async raised: FAILED, whatever the row says by now.
PublishFails(j) ==
    /\ Fault
    /\ request[j] = "committed"
    /\ request' = [request EXCEPT ![j] = "done"]
    /\ SetStatus(j, "failed")
    /\ UNCHANGED <<counted, reaper, run, gradeVars, moodleVars>>

\* The process dies between the commit and the publication, or the broker
\* loses the message.
RequestDies(j) ==
    /\ Fault
    /\ request[j] = "committed"
    /\ request' = [request EXCEPT ![j] = "done"]
    /\ UNCHANGED <<status, counted, reaper, run, gradeVars, moodleVars>>

-----------------------------------------------------------------------------
(***************************************************************************)
(* The run (MoodleFeedbackPushService.run)                                 *)
(***************************************************************************)

\* The row is locked and claimed while it is QUEUED; a redelivered twin, or a
\* run that comes after the watchdog, finds another status and leaves.
ClaimableMutant(j) == status[j] \notin Terminal
Claimable(j) == status[j] = "queued"

Claim(r) ==
    /\ run[r].pc = "queued"
    /\ IF Claimable(run[r].job)
       THEN /\ SetStatus(run[r].job, "processing")
            /\ Hold(r, Held("payload", run[r].job, NoPayload, {}, NoBuckets))
       ELSE UNCHANGED status /\ Goto(r, "ack")
    /\ UNCHANGED <<counted, reaper, request, gradeVars, moodleVars, faults>>

\* build_feedback_payload: fully reviewed submissions and their marks.
InPayload(s) == reviewed[s]

BuildPayload(r) ==
    /\ run[r].pc = "payload"
    /\ Hold(r, Held("probe", run[r].job,
                    [s \in Students |-> IF InPayload(s) THEN mark[s] ELSE NoMark],
                    {}, NoBuckets))
    /\ UNCHANGED <<jobVars, gradeVars, moodleVars, faults>>

InRun(r) == {s \in Students : run[r].payload[s] # NoMark}

Sendable(r) == InRun(r) \ Slotless

\* select_transport probes the site.  Students without a question to send are
\* PARTIAL and count as failed; the gradebook may not resolve the quiz, then
\* everybody has failed.
SelectTransport(r) ==
    /\ run[r].pc = "probe"
    /\ \/ \E transport \in {"plugin", "gradebook"} :
             Hold(r, Held(transport, run[r].job, run[r].payload, Sendable(r),
                          Result({}, {}, InRun(r) \cap Slotless)))
       \/ Hold(r, Held("finish", run[r].job, run[r].payload, {}, Result({}, {}, InRun(r))))
    /\ UNCHANGED <<jobVars, gradeVars, moodleVars, faults>>

\* Moodle stored the payload's marks of the students in S.
Send(r, S) ==
    /\ moodle' = [s \in Students |-> IF s \in S THEN run[r].payload[s] ELSE moodle[s]]
    /\ sent' = [sent EXCEPT ![run[r].job] =
                   [s \in Students |-> sent[run[r].job][s] + IF s \in S THEN 1 ELSE 0]]

\* The plugin takes all students in one call.  It may report each as stored,
\* unknown or failed, leave some out (failed), or not answer at all; what it
\* did not report as stored it may still have stored.
PluginPush(r) ==
    /\ run[r].pc = "plugin"
    /\ \E ok \in SUBSET run[r].todo : \E unknown \in SUBSET (run[r].todo \ ok) :
          /\ \E S \in SUBSET (run[r].todo \ unknown) : ok \subseteq S /\ Send(r, S)
          /\ Hold(r, Held("finish", run[r].job, run[r].payload, {},
                          Result(ok, unknown, run[r].results.failed
                                                \cup (run[r].todo \ (ok \cup unknown)))))
    /\ UNCHANGED <<jobVars, gradeVars, faults>>

\* The gradebook takes one student per call; its answer decides the bucket.
GradebookResultMutant(answer) == IF answer = "error" THEN "ok" ELSE answer
GradebookResult(answer) == IF answer = "error" THEN "failed" ELSE answer

Add(b, bucket, s) ==
    LET Into(name, S) == IF bucket = name THEN S \cup {s} ELSE S
    IN  Result(Into("ok", b.ok), Into("notFound", b.notFound), Into("failed", b.failed))

GradebookPush(r, s) ==
    /\ run[r].pc = "gradebook"
    /\ s \in run[r].todo
    /\ \E answer \in {"ok", "notFound", "error"} :
          /\ \/ answer # "notFound" /\ Send(r, {s})
             \/ answer # "ok" /\ UNCHANGED moodleVars
          /\ Hold(r, Held("gradebook", run[r].job, run[r].payload, run[r].todo \ {s},
                          Add(run[r].results, GradebookResult(answer), s)))
    /\ UNCHANGED <<jobVars, gradeVars, faults>>

GradebookDone(r) ==
    /\ run[r].pc = "gradebook"
    /\ run[r].todo = {}
    /\ Goto(r, "finish")
    /\ UNCHANGED <<jobVars, gradeVars, moodleVars, faults>>

\* COMPLETED, over what the row says by now (the watchdog may have failed it).
Complete(r) ==
    /\ run[r].pc = "finish"
    /\ SetStatus(run[r].job, "completed")
    /\ counted' = [counted EXCEPT ![run[r].job] = run[r].results]
    /\ Goto(r, "ack")
    /\ UNCHANGED <<reaper, request, gradeVars, moodleVars, faults>>

\* No connection, an undecryptable token, no quiz id or a failed probe, before
\* anything is sent; anything else unexpected, at any point.
RunRaises(r) ==
    /\ \/ run[r].pc \in {"payload", "probe"} /\ UNCHANGED faults
       \/ run[r].pc \in {"plugin", "gradebook", "finish"} /\ Fault
    /\ Goto(r, "error")
    /\ UNCHANGED <<jobVars, gradeVars, moodleVars>>

\* _fail.  Its commit may raise; then the task ends and the row stays as it is.
RecordFailure(r) ==
    /\ run[r].pc = "error"
    /\ \/ SetStatus(run[r].job, "failed") /\ UNCHANGED faults
       \/ Fault /\ UNCHANGED status
    /\ Goto(r, "ack")
    /\ UNCHANGED <<counted, reaper, request, gradeVars, moodleVars>>

Acknowledge(r) ==
    /\ run[r].pc = "ack"
    /\ Hold(r, EmptySlot)
    /\ UNCHANGED <<jobVars, gradeVars, moodleVars, faults>>

-----------------------------------------------------------------------------
(***************************************************************************)
(* Faults and the watchdog (reap_stuck_moodle_feedback_jobs)               *)
(***************************************************************************)

WorkerLost(r) ==
    /\ Fault
    /\ run[r].pc \in Working \cup {"ack"}
    /\ Hold(r, Message(run[r].job))
    /\ UNCHANGED <<jobVars, gradeVars, moodleVars>>

\* The message is lost, or its run is killed and the message acknowledged.
MessageGone(r) ==
    /\ Fault
    /\ run[r].pc # "idle"
    /\ Hold(r, EmptySlot)
    /\ UNCHANGED <<jobVars, gradeVars, moodleVars>>

\* The broker delivers the message again while its run still works.
Redeliver(r, twin) ==
    /\ Fault
    /\ run[r].pc \in Working \cup {"ack"}
    /\ run[twin].pc = "idle"
    /\ Hold(twin, Message(run[r].job))
    /\ UNCHANGED <<jobVars, gradeVars, moodleVars>>

StuckMutant(j) == status[j] = "queued"
Stuck(j) == status[j] \in {"queued", "processing"}

ReaperLoads(j) ==
    /\ ~reaper[j]
    /\ Stuck(j)
    /\ reaper' = [reaper EXCEPT ![j] = TRUE]
    /\ UNCHANGED <<status, counted, request, run, gradeVars, moodleVars, faults>>

ReaperFails(j) ==
    /\ reaper[j]
    /\ reaper' = [reaper EXCEPT ![j] = FALSE]
    /\ \/ SetStatus(j, "failed") /\ UNCHANGED faults
       \/ Fault /\ UNCHANGED status
    /\ UNCHANGED <<counted, request, run, gradeVars, moodleVars>>

-----------------------------------------------------------------------------
Request(j) ==
    \/ CreateJob(j) \/ PublishFails(j) \/ RequestDies(j)
    \/ \E r \in Runs : Publish(j, r)

Work(r) ==
    \/ Claim(r) \/ BuildPayload(r) \/ SelectTransport(r) \/ PluginPush(r)
    \/ \E s \in Students : GradebookPush(r, s)
    \/ GradebookDone(r) \/ Complete(r) \/ RunRaises(r) \/ RecordFailure(r)
    \/ Acknowledge(r)

Trouble(r) ==
    \/ WorkerLost(r) \/ MessageGone(r)
    \/ \E twin \in Runs : Redeliver(r, twin)

Watch(j) == ReaperLoads(j) \/ ReaperFails(j)

Next ==
    \/ \E j \in Jobs : Request(j) \/ Watch(j)
    \/ \E r \in Runs : Work(r) \/ Trouble(r)
    \/ \E s \in Students, m \in Marks, done \in BOOLEAN : Review(s, m, done)

Spec == Init /\ [][Next]_vars

\* Workers go on, and beat keeps calling the watchdog.
FairSpec ==
    /\ Spec
    /\ \A r \in Runs : WF_vars(Work(r))
    /\ \A j \in Jobs : WF_vars(Watch(j))

-----------------------------------------------------------------------------
(***************************************************************************)
(* Properties                                                              *)
(***************************************************************************)

\* However often its message is delivered, a job sends a student's mark at
\* most once: "a redelivered twin bails idempotently instead of firing a
\* second, interleaving push against Moodle".
SentAtMostOnce == \A j \in Jobs : \A s \in Students : sent[j][s] <= 1

\* A completed job's report is true: whoever it counts as pushed was sent,
\* by this job, whatever became of the other runs of its message.
ReportIsTrue ==
    \A j \in Jobs : status[j] = "completed" => \A s \in counted[j].ok : sent[j][s] >= 1

\* Moodle never shows a mark the reviewers had not finished: every mark it
\* stores is one the submission had while fully_reviewed.
OnlyFinalMarks == \A s \in Students : moodle[s] # NoMark => moodle[s] \in final[s]

\* The record of a push and the gradebook agree with the grading.
PushIsTrue == ReportIsTrue /\ OnlyFinalMarks

\* The polling client sees a terminal status in the end, and for good.
JobConverges == \A j \in Jobs : <>[](status[j] \in {"none"} \cup Terminal)

=============================================================================
