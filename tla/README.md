# ExamCraft: TLA+ models, checks and proofs

ExamCraft (the repository's `backend/` and `frontend/`) lets lecturers generate
exam questions with an LLM, review them, compose exams, import the students'
results, grade them and send feedback back to Moodle. The backend is FastAPI
with PostgreSQL, Redis and Celery workers; the frontend is a client of its REST
API. This directory holds TLA+ modules for the parts of the backend where the
order of events or the exact rule matters, TLC configurations that check them on
small instances, and proofs that TLAPS checks for every size.

## 1. Inventory

| component | state | operations | hard behaviour | what must hold |
|---|---|---|---|---|
| Question generation jobs (`api/rag_exams.py`, `tasks/question_tasks.py`) and their watchdog (`tasks/maintenance_tasks.py`) | row `question_generation_jobs` (status, redelivery_count), questions linked to it, Celery message, result backend | generate, retry, run, save, fail, autoretry, redeliver, withdraw; mirror, give up | messages duplicated, lost, late; workers that die after the commit; observers that write what they read earlier | questions are stored once, a success is true, a retried job stays empty, every job ends |
| Exam composer (`api/exams.py`) | `exams`, `exam_questions` | add, auto-fill, points, remove, reorder, finalize, unfinalize, export, archive, restore, delete | check-then-act without locks in two processes, cascading deletes, a session without autoflush | positions distinct, total is the sum, a finalized exam is frozen and was approved, used questions are kept |
| Question review (`api/question_review.py`) | `question_reviews`, `review_history` | edit, start, approve, reject, archive, restore, delete | a decision about a text that is changing | an approved question is the one that was approved |
| Automatic composition (`services/auto_compose_service.py`) | none | greedy choice under budgets and shares | zeros and ties | budgets are kept and filled |
| Import of results (`services/import_service.py`, `tasks/import_submissions_task.py`, `api/submissions.py`) | `import_jobs`, submissions, attempts, grades | parse, upsert, grade, finalise, fail, reap, delete results | redelivery after success, two imports of the same students, a watchdog that races a slow run | what is stored is graded or flagged, reports are true, every job ends |
| Students and classes (`api/student_classes.py`, `import_service.py`) | students, classes, memberships | upsert, rename, delete, join | unique keys met by two imports | a hint in a result file is followed |
| Grading (`services/grading_service.py`, `api/grades.py`) | grades, columns of the submission | propose, review, override, regrade | an import holds what it read while the LLM answers; the worker runs several imports at once | submission follows grades, an override is lost to nobody who could have seen it |
| Grader, schemes and their administration (`services/grading/`, `services/grading_scheme_*.py`, `api/grading_schemes.py`) | schemes, defaults | create, change, attach, default, delete; evaluate | boundaries of segments; a scheme attached while it is deleted | saved schemes give a grade, schemes in use exist |
| Statistics and grade export (`services/statistics_service.py`, `api/grade_export.py`) | none (views) | exam, class and student reports | two counts of one thing | they agree |
| Moodle: export, round trip, feedback push (`services/exam_export_service.py`, `api/moodle_roundtrip.py`, `services/import_drivers/`, `services/moodle_feedback/`) | `external_refs`, `moodle_feedback_push_jobs` | export, synchronise ids, fetch, file answers; claim, push, complete, reap | numbering that drifts on both sides, also while a synchronization waits for Moodle; calls that fail after they worked | answers are filed under their question, marks are final and sent once |
| Documents and OCR (`services/document_service.py`, `tasks/document_tasks.py`) | `documents` (status, processing_info), chunks | upload, process, escalate, OCR, process again, delete | a follow-up task that overtakes the write that announces it, no watchdog | processed documents can be searched |
| Sign-in (`api/auth.py`, `services/auth_service.py`, `services/oauth_service.py`) | users, sessions, links, Redis | register, verify, log in, refresh, log out, reset, OAuth | one link or token used twice at once | links and sessions end |
| Impersonation, deletion of accounts (`api/admin.py`, `api/gdpr.py`, `tasks/gdpr_tasks.py`, `services/gdpr_deletion_service.py`) | sessions, deletion dates, files | start, end, reap; request, cancel, sweep, erase | a decision that is stale when it is executed; two watchdogs | a cancellation holds, no file is left, an end is reported once |
| Administration of users and roles (`api/admin.py`, `api/auth.py`) | users, roles | register, assign, remove, create and delete roles, erase | two first users, two last roles | roles exist, nobody is left without |
| Visibility (`utils/*_visibility.py` and their callers) | owner, scope, team and institution of a resource | list, open, use, edit, transfer | one rule written eight times; people who move | the copies agree |
| Organisation units, transfer, tags (`services/org_unit_service.py`, `services/user_institution_transfer_service.py`, `api/tags.py`) | units, memberships, tags and links | create, move, delete, assign, transfer; merge, archive | crossing moves; a moving tag that meets its name | a forest per institution, labels are kept |
| Subscriptions (`api/v1/webhooks.py`, `api/v1/billing.py`) | plan and quotas of an institution | checkout, events, synchronise | events repeated, out of order, before the row they need | the plan is the provider's |
| Quotas (`utils/tenant_utils.py`, `services/auswertung_quotas.py`) | counters, limits | check, count, reserve | work in flight is not counted | overshoot is bounded |
| Progress stream (`api/v1/websocket.py`) | connections | connect, poll, report, close | a result backend that forgets and errs, and is read twice per poll | what is told of a task is true |
| Mail events (`webhooks/subscribeflow_webhooks.py`) | events, suppressed addresses | record | repeated, reordered events | the list follows the events |
| Help index (`services/docs_indexer_service.py`, `api/v1/help.py`) | chunks, recorded commit, status, approved answers | full and incremental runs, approve | runs that fail half-way, removals that fail unnoticed, locks that expire, two releases | a completed index is complete |
| LLM gateway, retrieval, document extraction, premium package, remaining administration, frontend, migrations | see `PROJECT.json` | | | not modelled, see section 6 |

How they interact: handlers and tasks share PostgreSQL at READ COMMITTED, and
only four places lock a row before they decide (`tasks/question_tasks.py` 161
and 454, `tasks/gdpr_tasks.py` 121, `services/moodle_feedback/service.py` 44).
Celery delivers at least once where `task_acks_late` and
`reject_on_worker_lost` are both set, and a lost channel leaves the old run
alive next to the new one. The result backend is a second store that observers
copy into the rows. Most handlers are coroutines that never await, so one server
process runs them one after the other (`Dockerfile.fly`); `Dockerfile.production`
starts two.

`PROJECT.json` lists each hazard at its line, with the properties that watch it.

## 2. Modules

| module | models | proofs |
|---|---|---|
| `JobLifecycle` | what a generation job promises its user: it ends at most once, has questions only if it ended well, is retried only without questions | |
| `GenerationJob` | the row, the message, the runs, the request, the watchdog, `/active-tasks` | `GenerationJobProofs` |
| `ExamComposer` | one exam, its rows, the review state of the questions, requests and transactions of several processes | `ExamComposerProofs` |
| `ImportJob` | jobs, messages and runs of imports into one exam, attempts, the watchdog, deletion of results | `ResultsProofs` |
| `Grading` | grades of one submission and the columns that follow from them | `ResultsProofs` |
| `FeedbackPush` | jobs, messages and runs that send marks to Moodle, reviews, the watchdog | `FeedbackPushProofs` |
| `DocumentProcessing` | one document: row, chunks, the task, the OCR task, `/process` | `InstitutionProofs` |
| `Accounts` | deletion of accounts and impersonation sessions | `AccountsProofs` |
| `AutoCompose` | the greedy choice of questions for an exam | `ExamComposerProofs` |
| `Marking`, `QuizExport` | pure algorithms: grader, schemes and evaluation; the shares written for Moodle and ILIAS | `ExamComposerProofs` |
| `Subscriptions` | one institution's plan, the provider and its events | `InstitutionProofs` |
| `OrgUnits` | units, memberships, team documents, the transfer of a user | `InstitutionProofs` |
| `Tags` | tags, their links, the transfer of their creator | `InstitutionProofs` |
| `RoundTrip`, `ResultFiles` | an exam's way through Moodle's web services; results that come as files | `ResultsProofs` |
| `SignIn` | one account's registration, sessions, links | `ServicesProofs` |
| `Administration` | institutions, users, roles | `ServicesProofs` |
| `Visibility` | who sees, uses and changes one resource | `ServicesProofs` |
| `Review` | one question's review and its history | `ServicesProofs` |
| `ProgressStream` | the streams of one task | `ServicesProofs` |
| `MailEvents` | recorded mail events and suppressed addresses | `ServicesProofs` |
| `HelpIndex` | the index of the help pages and the answers that rest on it | `ServicesProofs` |
| `Reports` | schemes, their defaults, and the statistics as views | `ResultsProofs` |
| `Roster` | students, classes and memberships under concurrent imports | `InstitutionProofs` |
| `Quotas` | documents, questions, evaluated exams and submissions against their limits | `InstitutionProofs` |
| `Sums` | no part of the system: lemmas about sums over finite sets | itself |
| `MC...` | symmetry, values and the composition of parts for TLC | |

Two conventions run through all of them. One action is one transaction, or one
call to another store, or the half of a handler between two points at which
others can interleave; what a request read and will write later is a record
(`req`, `request`, `task`, `call`) of its process. And a fault is an action with
a budget (`MaxFaults`, `MaxFailures`), never an assumption that it does not
happen.

**GenerationJob.** `run[r]` is a slot that holds a message and then the run that
executes it; its `pc` is the point in `generate_questions_task`: `check`,
`repair`, `count`, `reject` are `_check_job_at_start`; `generate` is retrieval
and generation (its result abstract); `failed`, `escaped`, `fatal` are the
`except` branches and the autoretry; `report` is the rest of the task after the
questions are committed, which may still raise; `drop`, `raise`, `return` what Celery
reports to the result backend; `ack` the late acknowledgement. The row is `status` and
`redeliveryCount`; a PENDING row may pass the watchdog's threshold at any time. `saved` counts
the sets that were ever stored, `linked` says whether questions of the job exist
now; reviewers can delete them. `watchdog` and `mirror` hold what an observer has
read and will write. Celery and the broker are not under `src/`: their actions
follow from the settings in `celery_app.py`.

**ExamComposer.** The first step of a request loads the exam, passes the checks
and computes what it will write (`req[w]`: rows to insert, columns to set, rows
to delete). `Flush` sends that to the database and recalculates the total;
`CommitContent` makes it visible. `MustWait` are PostgreSQL's row locks and
unique-index entries, `Accepted` its constraints and SQLAlchemy's check for
vanished rows, in the order in which SQLAlchemy sends its statements (UPDATE
before DELETE). `Rollback` is every error path. Points are naturals and one
suggestion serves all question types; titles and other metadata are left out.

**ImportJob.** A run's `pc` (parse, rows, submission, attempt, grade) is where its
open transaction stands; what it inserted blocks others that insert the same
key. Transient and permanent failures are the `except` clauses of the task, a
retry keeps the row, `ack` comes last. **Grading.** `call[p]` is
what the request of an API process has read, `import[w]` what the import of a worker
has: rows and grades before the language model is asked, the attempts once more
before it grades. A commit writes the columns that differ from what was read, and
an import grades every answer of the student again. `mixed` is a history variable:
what was written last came from a transaction that had been overtaken.
**FeedbackPush.** `payload`, `probe`, `plugin`, `gradebook`, `finish`, `error` are
the stages of a push; Moodle may store what it answers with an error.
**DocumentProcessing.** `clear`, `start`, `extract`, `embed`, `record`, `judge`,
`escalate`, `write`, `error` are the commits of `document_service.py`, shared by
the task, the OCR task and the two kinds of `/process`, with and without vectors;
`bare` remembers that a run without vectors ended over an empty store. **Accounts.** `account`
and `erased` are the user's row, `owner`, `rows`, `stored`, `orphan` what the user
left, `task` the deletion task, `sess`, `expired`, `reported`, `silent` the
sessions, `reaper` and `call` what watchdogs and requests hold.

**OrgUnits.** `Begin...` loads and checks, `Commit` writes the changed columns as
far as unique indexes and foreign keys let it. **Tags.** Each handler is one
transaction; the session does not flush automatically, so a query inside it
does not see what it added. **Subscriptions.** The provider queues an event per
change and repeats it until it is acknowledged, in any order. `excuses` remembers
why the plan may differ (out of order, lost, unknown price, chosen by hand).
**RoundTrip** numbers slots as exporter and synchroniser do, each in its own way. A
synchronization loads the rows (`SyncBegins`), waits for Moodle while rows are added,
removed and reordered and other synchronizations begin and end, and then writes
the slots of the order it loaded where they differ from what it loaded
(`SyncCommits`), or fails: Moodle does not know the quiz, or a row to write is gone.
**ResultFiles** decides by degrees of likeness.

**SignIn** splits handlers where they commit and go on or await; Redis is left
out but for OAuth's codes. It speaks of rows: an access token that was issued before a
rotation lives until it expires, whatever becomes of its session's row. A provider
may or may not have verified the address of a new account. **Visibility** defines the eight copies of the rule
separately (`DocumentOpens`, `DocumentListed`, ...), and each handler's own
check next to them; the mirror of a premium collection (`managed_by`) is neither
listed, opened nor deleted here. Every user has an institution, as the column
requires (`models/auth.py` 287). **Review** has load, commit and history halves; a column set
to the value that was loaded is not written. **Roster**: an import is one
transaction that waits on keys others have not committed. **ProgressStream**
reads Celery's state, then its details, then the row, in separate steps, and notes
why a stream told an end: the task, a wait too long, Redis, the row, or an
exception of its own (`why`). **MailEvents** reads in one half
and writes in the other. **HelpIndex** works page by page under a lock that
expires; `collection` has the wordings the search finds of each page, several if old
chunks could not be removed (`kept`), and `broken` is a history variable that says what has happened since the
last full scan. **Reports** checks in one half and commits in the other, against
the constraints of the database; the statistics are operators on its rows.

## 3. Runs

| run | question | bounds | answer |
|---|---|---|---|
| `gen_two_jobs` | a job and its retry under all faults; refines `JobLifecycle` | 2 jobs, 2 slots, no autoretry, 2 redeliveries, 1 fault | holds |
| `gen_live` | does every job leave PENDING? are its questions stored once? | 1 job, 2 slots, 1 autoretry, 1 redelivery, 2 faults, workers that lack the RAG service | yes |
| `composer_one_worker` | one process, every request | 2 questions, 2 points, 3 positions | holds |
| `composer_two_workers` | two processes adding, removing, reordering, deleting | 2 questions, 2 positions, no points | the database's own guarantees hold |
| `composer_renumber` | "re-number remaining positions" | 3 questions | violated |
| `import_two_jobs` | two imports that share a student and an attempt | 3 attempts (one malformed), 2 students, 1 retry, 1 fault, 1 deletion | holds |
| `grading_two_imports` | reviews and overrides while two imports, perhaps overlapping, grade all answers again | 2 attempts, 2 open questions, strategy `latest`, 1 process, 2 workers, 2 imports | holds, apart from what a writer changed that had been overtaken |
| `push_twin` | a push delivered twice while reviews go on | 2 slots, 3 students (one without a slot), 2 reviews, 2 faults | holds |
| `documents` | one document through processing, OCR, `/process` with and without vectors, deletion | 3 slots, 1 retry each, 1 request, 1 fault | holds |
| `accounts` | deletion and impersonation | 2 users, 1 file, 2 sessions, 2 processes, 1 task, 2 watchdogs, 3 calls, 1 fault | holds |
| `components` | nine small parts: composition, schemes, exported scores, plan, hierarchy, round trip, files, tags | see below | holds |
| `services` | ten services, each under one or two processes | see below | holds |

**Bounds.** Two slots let a run and its redelivered twin live at once, and a
second fault redelivers the message again; the two limits of the generation job are reached at 1 and 2 instead of 4
and 3. Two questions suffice for two rows to collide in a position and for an
add to meet a delete; the re-numbering needs three, since the row after the
removed one must exist. Without `MaxPosition` positions grow for ever.
Two imports of one student's attempts suffice for one that overtakes the other and
for one that comes when the first one's grades are reviewed and overridden; `latest` is
the only strategy the program sets (`import_service.py` 971), the proofs are for all
three. Two imports with a shared attempt suffice for a duplicate, a wait and a
deadlock; a third would wait like the second. Three students are one whose mark
is sent, one whose mark is sent in the other half of a split call, and one that
cannot be sent. Two reapers and two processes are the pairs that can race; the
races of three reduce to those of two since each step reads and writes one row.

`components` and `services` put parts side by side that share no state: a
behaviour follows one of them, which costs the sum of their states and not the
product. `CONSTRAINT Bound` in `components` stops where a plan has an excuse
(only the quotas are left to check then), gives two servers two units that have
a member or a document and one server three, lets documents and prompts meet two
tags and keeps three tags in one institution. Two synchronizations may wait for
Moodle at once (`Syncs`), for two quizzes; the exam changes once until they end, and once
more afterwards. In `services` a part with two
processes gets the cases in which they meet (`MCServices`, "Bounds"), the same
part with one process all others; links, mails, texts and runs are limited by
`MaxRequests`, `MaxFailures`, `MaxTexts` and `MaxRuns`. Approvals are checked
with one process serving, since with two they do not hold. The help index has two
releases there; three releases with one server were checked apart (section 4).
Model values are permuted only where no constant tells them apart.

**Deadlock** is not checked: a system in which every job is over, every fault is
spent or the exam is deleted has nothing left to do, and clients need not send
anything.

**Fairness.** `gen_live`: workers go on with what they took, beat calls the
watchdog (`celery_app.py`, `beat_schedule`), which finds a row older than its threshold
in the end, and results expire; nothing
is assumed of the broker, the request or the user. `import_two_jobs`: the same
of runs and watchdog, and PostgreSQL resolves deadlocks. `push_twin`: runs and
watchdog. `documents`: the upload goes on, and a run with what it took; nothing
is assumed of deliveries, requests and faults. `accounts`: one of the steps of
requests, the deletion task, the daily sweep, the watchdogs and the expiry of
tokens happens as long as one can, which is less than the schedule gives. Faults
are bounded, which stands for the database being available again in the end. The
other runs check safety only.

**Mutants.** Operators named `...Mutant` are deliberate mistakes (a dropped
guard, an off-by-one, a missing re-check). Each property of a passing run is
violated when one of them replaces the definition it stands next to. The type
invariants are parts of the invariants of section 5; no run repeats them.

## 4. What the runs found

`composer_renumber` is a run. The other definitions named here stand in their
modules as what a reader might expect; TLC refutes them in the configuration
given, if it is not the one of the component's run.

**Generation.** `_check_job_at_start` reads the row without a lock and writes
FAILURE at the redelivery limit; a parallel run may have committed SUCCESS in
between (`SuccessRowNeverChanged`). The questions stay and later repairs restore
SUCCESS, which is why `ImplementsLifecycle` holds all the same. The counter is
incremented from an unlocked read, so the limit can be passed by one
(`RedeliveredRunsBounded`; both with 1 job, 3 slots, no autoretry, 2 faults).

**Composer.** `remove_exam_question` numbers the rows before the DELETE is
flushed, and the gap stays (`RemovalRenumbers`). With a gap, a later removal can
move a row to the position of the row it deletes before the DELETE is sent;
`Accepted` then stays false and the request ends with 409 however often it is
repeated. The repository's test passes since its session flushes automatically.
With two processes the checks can be stale at the commit: `TotalIsSum`,
`UsedQuestionsKept`, `FrozenUnlessDraft` and `FinalizedApproved` fail when
`composer_one_worker` is given a second worker. The guard of `delete_exam` can be
stale with one, because imports commit in a Celery worker (`SubmissionsKept`).

**Imports, grading.** A job that ends FAILED may have stored attempts: its first
run committed and its redelivered run failed (`FailedImportStoredNothing`, two
jobs, no retry). "manual_override is sacrosanct" (`grading_service.py` 412) is so for
an import that finds the override, not for one that read the grade before the
language model answered: it writes the machine's points over the teacher's
(`Sacrosanct`). After such a crossing the columns of the submission need not be
those its grades give (`OverriddenSubmissionFollows`). When the grading of the import
that brought the latest attempt failed, a review of an older answer computes the
columns from an attempt without grades: `fully_reviewed` with no points
(`FullyReviewedIsGraded`). What still holds is what `OverrideKept` and
`SubmissionFollowsGrades` say: nobody who began after the override loses it, and
columns computed with nothing in between are right until the next crossing.

**Moodle.** `sync_moodle_question_ids` numbers slots over all rows while the exporter
skips questions nobody could score; the counts are compared only if ids are
given, and the lookup by slot ignores the quiz. Two synchronizations that cross leave two rows
with one slot: rows are reordered while the first waits for Moodle, and a slot that
is as it was loaded is not written (`OneRowPerSlot`). `ResultsFiled` therefore
speaks of quizzes synchronized with no other synchronization under way.
`PositionOnlyWithoutRefs` (`moodle_api_driver.py` 466-472) and `NewAttemptStored`
(`moodle_json_driver.py` 656-668) are refuted. Export and grader differ when
`correct_answer` names no option.

**Documents.** `delete_document` leaves the chunks in the vector store
(`docs-site/docs/user-guide/documents.en.md:86` says otherwise). OCR that fails has
deleted the chunks and left `has_vectors`; `/process` without vectors then writes
PROCESSED over an empty store (`FlagMeansChunks`). That case, a worker that
dies (the row stays PROCESSING) and an OCR mark `queued` without a task are what
`ProcessedIsSearchable` and `DocumentSettles` except by name. The processing_info
that the task writes after it has queued the OCR may overwrite what OCR wrote before
(`document_tasks.py` 243); no property asks for the newer one.

**Plans and quotas.** `PlanMatchesProvider` holds until an excuse: events out of
order revive a cancelled plan, two open checkouts or a second plan while one is
past due defeat "Prevent duplicate subscriptions", an unknown price is
acknowledged and lost. "Re-importing the same exam is free", but the quota of
submissions counts the class again (`ReimportFits`). `create_question_review`
lets one question beyond the month's limit. OAuth signup, verification,
reactivation and transfer check no seats (`SeatsKept`); `resource_usage` is never
incremented; personal institutions register with 1/10/50 and get the tier's
1/5/20 at the next login.

**Units, tags.** With two processes two crossing moves close a ring and an
assignment passes a transfer (`Acyclic`, `MembersAtHome`); `TeamAtHome` fails
with one, after which the unit cannot be deleted. `merge_tags` of two sources
that share a question always fails; `delete_tag` ignores documents, a merge leaves
document links on archived tags, `create_document_tag` ignores the kind
(`ContentOnDocuments`, `PromptLabelsKept`).

**Sight.** The TEAM check of documents lacks the test for the institution that
the others got as a "Bugfix" (`DocumentsAtHome`); `documents:read_all` removes a
foreign team document from the list (`GrantHidesNothing`,
`document_visibility.py` 66-71); an owner from elsewhere changes the scope
(`DocumentsChangedAtHome`); the pool goes on offering one's own question after a
transfer, its preview is 404 (`PoolPreviews`); preview, review queue, results and
grades are the whole institution's, the preview deliberately "ONLY
tenant-scoped" (`PrivateIsPrivate`). Superusers see exams, but not results and
grades, of other institutions. A transfer leaves `org_unit_id` and visibility as
they are, and frameworks where they are.

**Roles, review.** `AlwaysAnAdmin` fails once an admin is taken away. With two
processes an edit and an approval cross (`ApprovalHoldsAlways`), and a process
that dies before its second commit leaves no history (`TrailTells`). No approval
names the text it is about (`ApprovedAsSeen`); the four-eyes rule looks at the
creator, not at the last editor.

**Roster.** An insert of a membership passes over a class deleted meanwhile
(`HintsAlwaysFollowed`); two imports in different order wait for each other
(`ImportsNeverBlock`).

**Streams, mails.** Two connections of one task, and the `finally` of a stream that
was replaced, leave a stream nobody registered (`OneStreamPerTask`,
`WatchedIsRegistered`). State and details of a task are two reads: if it fails
between them, the stream has PROGRESS with an exception as details, raises, and its
generic `except` tells FAILURE without asking the row, so "SUCCESS in the DB wins
over Celery's FAILURE" (`websocket.py` 410) is not always so (`SavedWins`). A soft and a hard bounce of one mail share id and type,
so the second is dropped (`HardBounceSuppresses`); no constraint keeps two
processes from recording one event twice (`RecordedOnce`). `is_email_suppressed`
is called nowhere.

**Help index.** `_index_file` ignores whether the old chunks were removed, although
`_remove_file_from_index` says "Callers MUST check the return": the page counts as
indexed, the run completes, and both texts are found (`OldTextIsGone`). A full scan that breaks off leaves the recorded commit
(`CompletedIsAlwaysComplete`), a renamed page's old path stays
(`GonePagesAreGone`), a full scan deletes no page and so no answer
(`AnswersRestOnPages`). An older release completes at its older commit, the lock
expires and is deleted unconditionally, `_index_file` catches only
`FileNotFoundError`, and the fallback logged as "full scan + clear" does not
clear. The proof of `CompletedIsComplete` found a further exception that two
releases do not show: a run at commit 0 completes, a run at commit 1 fails on
one page and so does not move the recorded commit, although another page it
changed is in the index; a run at commit 2, where that page reads as at commit 0,
takes the difference of 0 and 2, does not touch the page and is reported
completed with the text of commit 1. The property now excludes it by name
(`Reverted`); with that it is proved for any number of releases.

**Schemes, reports.** `is_default_for_institution` is used by no resolver
(`FlaggedIsDefault`); after a transfer an exam is graded by the old institution's
scheme (`ScaleInOwnHands`); class and student histories lose transferred exams
that the Bloom statistics go on counting (`HistoryInOnePiece`).

## 5. Proofs

Every proof starts from the named assumptions on the constants alone (finite
sets, sentinels that are not data, limits that are naturals) and holds for any
number of processes, rows and faults, unless "with one process" is part of the
property. A property is seldom inductive; what each proof adds is said here.

A word on the prover. The SMT translation of tlapm 1.4.5 takes the updates of
`[f EXCEPT ![a] = x, ![b] = y]` and of `[[f EXCEPT ![a] = x] EXCEPT ![b] = y]` for
updates of different keys: where `a = b` its hypotheses contradict each other and
anything follows. The modules under proof therefore never update one key of a
function twice: two fields of a row change by `![a] = [@ EXCEPT !.p = .., !.q = ..]`.
Inside such an inner update it also misreads a further `@`; where one is needed the
row is named: `![a] = [f[a] EXCEPT !.p = @ + 1, ..]`.

**`Sums`**. `MapThenSumSet` is a fold, defined by CHOOSE over functions on all
subsets. That such a function exists is shown without an induction theorem: of
the sets for which it fails one has the fewest members (`SmallestSet`), and
without one of its members it does not fail (`AddsUpExists`). From `SumIs`, a sum
is a function that adds up, follow the laws the proofs cite: a member taken out
(`SumTakes`), equal weights (`SumSame`), one weight changed or one member added
(`SumAdds`). In the same way a finite set of numbers has a largest and a smallest
member (`LargestOfFinite`, `SmallestOfFinite`); of two numbers they are the one
expected (`TwoMax`, `TwoMin`).

**`GenerationJobProofs`**: types, `AtMostOneSet`, `SuccessMeansSaved`,
`RetriedJobStaysEmpty` and `ImplementsLifecycle`. The invariant `IInv` adds, per
job, what makes a row trustworthy: a linked job has stored exactly one set; a job
is given up for good only without questions or with a set that was stored;
whoever is about to write SUCCESS (a run at `repair`, `report` or `return`, the watchdog,
the mirror, the result backend) holds a job that is *settled*, that is, whose set
is stored or whose row was withdrawn; a retry's parent is over and empty.
`JobTypeStep`, `RunTypeStep`, `JobsStep` and `RunsStep` show that each action
keeps its part, and `StepSimulation` that each action is a step of
`JobLifecycle` or a stutter.

**`ExamComposerProofs`**: `PlacedQuestionsExist` for any number of processes; the
invariant adds that a flushed INSERT refers to questions that exist, which the
row locks (`MustWait`) keep until the commit. `ExamKept` with one process
(`OneWorker`): what a request checked when it started still holds when it
ends (`GuardsHold`), which is what the absence of `await` in the handlers buys
and what a second process destroys. `PositionsDistinct` for any number of
processes: a request computes positions from rows that may be gone when it
writes, so its own checks say nothing; what keeps rows apart is the unique index
at the flush and the entries that flushed requests leave in it. The invariant
says that what was flushed fits the committed rows (`FlushedFit`) and that two
flushed requests share neither a question nor a position they wrote
(`FlushedApart`); `BothFit` shows that the rows one of them commits leave the
other one fitting. It also needs the largest position to exist, which is the
well-foundedness of the order on positions (`LargestMember`). `TotalsAddUp`
(`TotalIsSum` with one process): a request that flushed computed its total from the
rows it read, so the invariant says that this total is the sum over the rows it
leaves (`FlushedTotals`), and the guards say that those are the rows at the
commit. Renumbering keeps every row's points (`ReorderingKeepsPoints`).
`FillsBudget` of the automatic composition: a chosen question adds its points and
minutes to the sums, which is what `Fits` compared with the budgets
(`ChooseKeepsBudget`), and when the choice has ended its reason still holds
(`EndsForAReason`). That there is a best question to take needs scores to be
numbers (`ScoreIsNatural`) and a finite set to have a largest and a smallest
member (`BestIsOneOfThem`); the proof assumes whole points, targets and shares.
`SavedSchemesGrade`, for every list of bands, segments or steps a client may send,
every pass mark and every granularity of the percentages: rounding to the nearest
with ties to even keeps the order of quotients (`RoundKeepsOrder`, from
`RoundIsNear`, which bounds its error by half a step), so more points never lower
the grade on one line (`OneLineRises`, `NextLineRises`). What the
validation accepts is a chain: each segment but the last has a next one
(`NextSegment`), hence segments cover the scale (`SegmentsCover`) and a higher
percentage finds a segment that is not earlier (`LaterIsHigher`); both take the
smallest counterexample where the code walks a sorted list. `StepIs` and
`StepsPassOn` are the same for steps. The assumption on `Schemes` says that lists are
finite, grades whole (in the units of the model) and a rounding step positive or
absent, which is what the parser leaves.
`ScoresFair`, for any finite set of options, key, answer and weight: `AddedUp` is a
fold with `Plus`, whose existence is shown like that of `MapThenSumSet`
(`AddedUp*`), and what it adds up depends on how many right and wrong options were
ticked alone (`AddedUpCounts`). The grader's share is then a quotient of these counts
clipped to nothing and all (`ShareIs`, `GraderIs`), each right option raises it and
each wrong one lowers it (`GradedIsFair`), and what a platform adds up from
the exported fractions is exactly that share, before anybody rounds (`OneScores`,
`SeveralScores`, `QuizzedScoresAlike`).

**`FeedbackPushProofs`**: types, `SentAtMostOnce`, `PushIsTrue`. The invariant
says that of the runs of one message only one passed the claim (`Exclusive`),
what the run that works has sent and still will send (`Accounts`), and that a
mark it holds was once final (`Finals`).

**`AccountsProofs`**: types, `EndReportedOnce`, `CancelHonoured`, `FilesGone`. The
invariant ties a session's reports to the one request or watchdog that won the
UPDATE of the row (`Ends`), the deletion task to the lock it holds (`Locks`), and
every stored file to a row, a task that will remove it or an upload under way
(`Kept`, `Safe`, `Sound`, `Limits`).

**`InstitutionProofs`**: types and `HierarchySound` of the organisation units. The
invariant adds, per pending request, what the handler checked (`SoundRequest`)
and, with one process, that it is still so (`CheckedRequest`).
`DescendantsClosed` says that the descendants `would_create_cycle` collects are
closed under children; `MoveKeepsAcyclic` that a move that passed it closes no
ring. `LabelsKept` of the tags rests on types alone: `NamesStayUnique` and
`MovingKeepsLabels` hold of every step. `PlanMatchesProvider` of the
subscriptions speaks of an empty queue, so the invariant says what the events
that still wait will put right: the last event of a plan tells its status
(`RowFollows`), the last one that sets the tier or the role sets the right one
(`TierFollows`, `RoleFollows`), and a plan's row is made before an event needs it
(`RowComes`). All of that holds until something happens that the property
excuses by name.
`OvershootBounded` of the quotas speaks of what is counted, so the invariant speaks of
what is counted and what is accepted together: an action either lets that total
be (storing what was accepted, losing it, deleting), or passed a check that bounds
it, or starts the history of a limit anew (`EndedTotals`, `QueuedTotals`,
`Fitting`). How far a limit may be exceeded is the largest of a finite set of
totals, hence `LargestOfFinite`.
`HintsFollowed` of the students and classes speaks of imports that are done, so the
invariant says of one under way what it has inserted and not committed: its classes
are rows nobody has and names nobody carries (`CreatedFresh`), its students and
memberships refer to rows that are there or are its own (`KeysHold`), and two
imports never insert the same class (`Apart`, which is what waiting on the unique
keys gives). While no handler touched the classes, every hint it has passed
is a membership stored or inserted (`OnTrack`), so the commit completes it.
`ProcessedIsSearchable` of a document: at any moment a document that is shown as
processed has its chunks, or lost something, or was processed without vectors over an
empty store (`bare`), or has a run that makes chunks or writes ERROR (`Searchable`,
`Repairs`); the two tasks differ in when that is, since the OCR task deletes the
chunks before it starts.
`WaitingIsCarried`: a document that waits has somebody whose
next steps end the wait, because only slot `r` changes in a step of run `r`
(`OthersCarry`) and `process_document` passes the document from the request to
the message, the run and its result without a gap. It is the safety half of
`DocumentSettles`; that the carrier moves on is the fairness TLC assumes.

**`ServicesProofs`**: `SightSound` (the invariant ties the scope to the team; one
lemma per kind of resource compares the copies of the rule), `RolesHeld` (what a
request found still bounds what it may take away, `Promise`),
`SuppressionFollowsEvents` (what a handler read is still recorded, `Listing` and
`Handled`), `LinksAndSessionsEnd` (`Lettered`, `Linked`, `Requested`),
`ApprovalHolds` (`Rests`) and `StreamTellsTruth` (`Truthful`: what a stream
learned from Celery and from the row is consistent with what the task did, and an
end it tells as the task's own, or as a wait too long, comes from a row that was
asked).
`SoleProcess` turns "with one process" into "no other request is pending".

`CompletedIsComplete` of the help index: a run under way has, of every page it
does not still have to do, the page as its release has it, beside it nothing but
what a failed removal kept, or is marked as failed (`Underway`); at rest the index holds the recorded commit, or after a failure what
the next difference will repair (`Settled`).

**`ResultsProofs`**: `AttemptsGradedOrFlagged`, `ReportsWhatItStored`,
`SubmissionFollowsGrades`, `OverrideKept`, `ReportsSound` and `ResultsFiled`. An import decides by what it read at its start. The invariant says
what is still so later: nothing it inserted is stored, and a submission it fetched
is there unless it was told of a deletion (`RunKnows`, `RunKeeps`); while
it succeeds, every attempt of its file is stored, inserted, in hand or still to do;
and two runs never hold an INSERT of the same key (`Apart`), which is what waiting
on the unique keys gives (`NotBlocked`). `OnlyItsEnd` shows that a job reaches its
end by its own last commit alone, `EndReports` what that commit tells. For the schemes,
every pending request still refers to what it checked as far as the database will
enforce it (`Checked`); `CountsAgree` splits the pupils who passed into those of the
class and the others.
`SubmissionFollowsGrades` and `OverrideKept` hold for any number of API processes,
workers, imports, attempts and questions and every strategy. A transaction has read
grades only of answers that still have one (`Seen`), and asks of them what its handler
may ask (`CallSound`, `ImportSound`); so what it writes merges with what others wrote
into grades again (`GradesMerge`), and an attempt is graded whole or not at all
(`WholeOrNot`). Unless what was written last came from a transaction that had been
overtaken, the columns are those of the grades, or grading failed last (`Columns`); the
columns of an UPDATE are then all those that differ (`NothingBetween`). `PickedIsThere` shows that the
attempt that counts is always one of those there are.
`ResultsFiled` has two halves. On the way through Moodle's web services, rows that
carry references carry those of the last quiz synchronized (`RefsFollow`), whatever
becomes of their positions, and no two the same slot, because an order of the
rows by position exists and names each of them once (`PaperOrdersPlaced`,
`OrderIsOnto`). While a request waits and no other has committed, the rows it loaded
carry what it read, or are gone, and no other row carries anything (`AsLoaded`), so
that writing only what differs leaves the slots of its order. From files, a stored row is what its attempt makes it
(`RowSound`), and while every file lists all attempts in order, its number is the
count of the attempts with a mapping up to it (`Number`, `RowOf`), so two rows of one
number are of one attempt (`NumbersApart`) and two keys agree only without a time
(`KeysAgree`). What a file stores is a recursive function over its lines: that it
exists and what holds after each line are inductions in the form of
`CountingUp`, about membership in a set.

Only model-checked:

* liveness (`JobsSettle`, `JobConverges`, `DocumentSettles`, `AccountsSettle`): out
  of the prover's reach, but for the safety half of `DocumentSettles` above;
* what section 4 lists as refuted.

## 6. Not modelled, and the plan

`PROJECT.json` names the reason for each component. The LLM gateway and retrieval,
document extraction and the clients of payment and newsletter services are calls
to others whose results are abstract here; exports to PDF, Markdown, Excel and
XML are formatting; the frontend is a client; migrations, scripts and the docs
site run once or by hand; prompts belong to the premium package, of which the
repository holds the interface. Of the modelled components, titles and metadata with their
optimistic lock (`api/exams.py` 1041), previews, anonymisation, rate limits, feature flags, the audit
log and comments are left out. Redis, storage and the vector store appear as
what their callers see of them: a lock that expires, a file, a chunk.

Every safety property the passing runs check is stated by a theorem. What could
follow is breadth: the optimistic lock of an exam's metadata, and the liveness
properties once a prover for fairness is at hand.
