------------------------------ MODULE Grading ------------------------------
(***************************************************************************)
(* The grades of one submission: the attempts of one student in one exam,  *)
(* a grade per answer, and the aggregates the submission carries.          *)
(*                                                                         *)
(* backend/services/grading_service.py computes and reviews grades,        *)
(* backend/api/grades.py exposes the reviews, and the grading step of      *)
(* backend/services/import_service.py writes grades when a result file     *)
(* brings new attempts.                                                    *)
(*                                                                         *)
(* Nobody locks a grade.  A request, and an import for the whole time the  *)
(* language model takes, works on what it read and commits the columns     *)
(* that differ from what it read; the other columns keep what others wrote.*)
(* A review handler does not await, so one API process runs one at a time; *)
(* the Celery worker runs several imports at once, and every import with a *)
(* new attempt of the student grades all of them again.                    *)
(***************************************************************************)
EXTENDS Integers, FiniteSets, FiniteSetsExt

CONSTANTS
    AllAttempts, \* the student's attempts, as they are numbered when they are stored
    Date,        \* what the strategy orders them by
    Questions,   \* the questions of the exam; an attempt answers each of them
    OpenEnded,   \* the open-ended ones, graded by the language model
    MaxPoints,   \* points of a question
    Strategy,    \* submission.scoring_strategy
    Processes,   \* API processes
    Workers,     \* processes of the Celery worker
    MaxImports   \* bound on imports that bring attempts of this student

ASSUME GradingAssumption ==
    /\ AllAttempts \subseteq Nat
    /\ IsFiniteSet(AllAttempts)
    /\ Date \in [AllAttempts -> Nat]
    /\ IsFiniteSet(Questions)
    /\ OpenEnded \subseteq Questions
    /\ MaxPoints \in Nat
    /\ Strategy \in {"first", "best", "latest"}
    /\ MaxImports \in Nat

VARIABLES
    attempts,    \* the attempts imported so far
    grade,       \* the grade of every answer
    sub,         \* graded_attempt_id, total_points_awarded, grade_status
    call,        \* the review request each process is in, and what it read
    import,      \* the import each worker is grading, and what it read
    imports,     \* how many imports have begun
    mixed        \* something was written by a transaction that another one had
                 \* overtaken, and not computed anew since (history)

gradingVars == <<attempts, grade, sub, call, import, imports, mixed>>

Answers == AllAttempts \X Questions
Reviewed == {"approved", "manual_override"}

NoGrade == [status |-> "none", points |-> 0]
Grades == [status : {"proposed"} \cup Reviewed, points : 0..MaxPoints] \cup {NoGrade}

NoAttempt == -1
Submissions == [graded : AllAttempts \cup {NoAttempt}, total : Nat,
                status : {"pending_review", "partially_reviewed", "fully_reviewed",
                          "import_grading_failed"}]

NewSubmission == [graded |-> NoAttempt, total |-> 0, status |-> "pending_review"]

GradingTypeOK ==
    /\ attempts \in SUBSET AllAttempts
    /\ grade \in [Answers -> Grades]
    /\ sub \in Submissions
    /\ \A p \in Processes : call[p] = {} \/ \E c \in call[p] :
          /\ call[p] = {c}
          /\ c.op \in {"approve", "override", "regrade", "bulk"}
          /\ c.on \in SUBSET Answers
          /\ c.points \in 0..MaxPoints
          /\ c.note \in BOOLEAN
          /\ c.attempts \in SUBSET AllAttempts
          /\ c.grade \in [Answers -> Grades]
          /\ c.sub \in Submissions
    /\ \A w \in Workers : import[w] = {} \/ \E i \in import[w] :
          /\ import[w] = {i}
          /\ i.new \in SUBSET AllAttempts /\ i.attempts \in SUBSET AllAttempts
          /\ i.grade \in [Answers -> Grades]
          /\ i.sub \in Submissions
          /\ i.graded \in BOOLEAN
    /\ imports \in 0..MaxImports
    /\ mixed \in BOOLEAN

GradingInit ==
    /\ attempts = {}
    /\ grade = [a \in Answers |-> NoGrade]
    /\ sub = NewSubmission
    /\ call = [p \in Processes |-> {}]
    /\ import = [w \in Workers |-> {}]
    /\ imports = 0
    /\ mixed = FALSE

-----------------------------------------------------------------------------
(***************************************************************************)
(* The aggregates of a submission, from grades g of attempts S             *)
(***************************************************************************)

PointsOf(g, at) ==
    LET points == [q \in Questions |-> g[<<at, q>>].points]
    IN  MapThenSumSet(LAMBDA q : points[q], Questions)

\* _pick_attempt: the attempt that counts.
PickAttempt(g, S) ==
    CHOOSE at \in S : \A other \in S :
        CASE Strategy = "first" -> \/ Date[at] < Date[other]
                                   \/ Date[at] = Date[other] /\ at <= other
          [] Strategy = "latest" -> \/ Date[other] < Date[at]
                                    \/ Date[other] = Date[at] /\ other <= at
          [] Strategy = "best" -> \/ PointsOf(g, other) < PointsOf(g, at)
                                  \/ PointsOf(g, other) = PointsOf(g, at) /\ at <= other

\* _compute_grade_status: the open-ended grades there are decide.
GradeStatusMutant(g, at) ==
    IF \E q \in OpenEnded : g[<<at, q>>].status \in Reviewed THEN "fully_reviewed"
    ELSE "pending_review"
GradeStatus(g, at) ==
    LET states == {g[<<at, q>>].status : q \in OpenEnded} \ {"none"}
    IN  IF "proposed" \notin states THEN "fully_reviewed"
        ELSE IF states \cap Reviewed # {} THEN "partially_reviewed"
        ELSE "pending_review"

Aggregate(g, S) ==
    LET at == PickAttempt(g, S)
    IN  [graded |-> at, total |-> PointsOf(g, at), status |-> GradeStatus(g, at)]

\* An UPDATE names the columns whose value differs from the one read.
Changed(old, new, now) == IF new = old THEN now ELSE new

\* The row of the submission, and the grades, when a transaction that read
\* `was` and computed `new` commits.
SubAfter(was, new) ==
    [graded |-> Changed(was.graded, new.graded, sub.graded),
     total |-> Changed(was.total, new.total, sub.total),
     status |-> Changed(was.status, new.status, sub.status)]

GradesAfter(was, new) ==
    [a \in Answers |->
        IF was[a] = NoGrade THEN (IF new[a] = NoGrade THEN grade[a] ELSE new[a])
        ELSE [status |-> Changed(was[a].status, new[a].status, grade[a].status),
              points |-> Changed(was[a].points, new[a].points, grade[a].points)]]

-----------------------------------------------------------------------------
(***************************************************************************)
(* Reviews (api/grades.py, GradingService)                                 *)
(***************************************************************************)

\* A request: what it does to which answers.  An override brings points and
\* perhaps a new reviewer_note.
Request(op, answers) == [op |-> op, on |-> answers, points |-> 0, note |-> FALSE]

\* The handler's SELECTs.
Read(p, c) ==
    /\ call[p] = {}
    /\ call' = [call EXCEPT ![p] =
          {[op |-> c.op, on |-> c.on, points |-> c.points, note |-> c.note,
            attempts |-> attempts, grade |-> grade, sub |-> sub]}]
    /\ UNCHANGED <<attempts, grade, sub, import, imports, mixed>>

\* An override outside [0, points_max] is refused.
OverridePoints == 0..MaxPoints

\* approve_grade, override_grade: one grade, by its id.
ReviewOne(p, a) ==
    /\ grade[a] # NoGrade
    /\ \/ Read(p, Request("approve", {a}))
       \/ \E n \in OverridePoints, note \in BOOLEAN :
             Read(p, [op |-> "override", on |-> {a}, points |-> n, note |-> note])

\* bulk_approve: the proposed grades among some ids, or above a confidence;
\* either filter may select any set.
BulkApprove(p) ==
    \E S \in SUBSET {a \in Answers : grade[a].status = "proposed"} :
        S # {} /\ Read(p, Request("bulk", S))

\* regrade_after_correct_answer_update: the answers to one question, but no
\* manual override.
Regradable(a) == grade[a] # NoGrade /\ grade[a].status # "manual_override"

Regrade(p, q) ==
    LET S == {a \in attempts \X {q} : Regradable(a)}
    IN  S # {} /\ Read(p, Request("regrade", S))

\* What the handler makes of the grades it read.  A regrade gives the points
\* the grader finds now, and resets the status to proposed.
NewGrades(c) ==
    IF c.op = "regrade"
    THEN {[a \in Answers |-> IF a \in c.on THEN [status |-> "proposed", points |-> n[a]]
                             ELSE c.grade[a]] : n \in [c.on -> 0..MaxPoints]}
    ELSE {[a \in Answers |->
              IF a \notin c.on THEN c.grade[a]
              ELSE IF c.op = "override" THEN [status |-> "manual_override", points |-> c.points]
              ELSE [status |-> "approved", points |-> c.grade[a].points]]}

\* The refreshed aggregate; approve_grade and override_grade return early,
\* without a refresh, when there is nothing to change.
Refreshed(c, new) == IF new = c.grade /\ c.op # "regrade" /\ ~c.note
                     THEN c.sub ELSE Aggregate(new, c.attempts)

\* What was read when c was is not what is there.
Overtaken(c) == c.attempts # attempts \/ c.grade # grade \/ c.sub # sub

Commit(p) ==
    \E c \in call[p] : \E new \in NewGrades(c) :
        /\ grade' = GradesAfter(c.grade, new)
        /\ sub' = SubAfter(c.sub, Refreshed(c, new))
        /\ call' = [call EXCEPT ![p] = {}]
        /\ mixed' = IF new = c.grade /\ Refreshed(c, new) = c.sub THEN mixed ELSE Overtaken(c)
        /\ UNCHANGED <<attempts, import, imports>>

-----------------------------------------------------------------------------
(***************************************************************************)
(* The grading step of an import                                           *)
(***************************************************************************)

\* What is being imported; nobody else sees it yet.
Coming == UNION {i.new : i \in UNION {import[w] : w \in Workers}}

\* The import inserts new attempts of the student; of the submission it reads the
\* row, the other attempts and their grades.  Then it calls the language model.
\* While the submission itself is new, a second import cannot insert it.
ImportReads(w, new) ==
    /\ import[w] = {}
    /\ imports < MaxImports
    /\ new # {}
    /\ \A at \in attempts \cup Coming, n \in new : at < n
    /\ attempts = {} => Coming = {}
    /\ import' = [import EXCEPT ![w] =
          {[new |-> new, attempts |-> attempts, grade |-> grade, sub |-> sub, graded |-> FALSE]}]
    /\ imports' = imports + 1
    /\ UNCHANGED <<attempts, grade, sub, call, mixed>>

\* grade_submission asks for the attempts again.  Those it knows stay as it has
\* read them (identity map).
ImportGrades(w) ==
    \E i \in import[w] :
        /\ ~i.graded
        /\ import' = [import EXCEPT ![w] =
              {[new |-> i.new, attempts |-> attempts,
                grade |-> [a \in Answers |-> IF a[1] \in i.attempts THEN i.grade[a] ELSE grade[a]],
                sub |-> i.sub, graded |-> TRUE]}]
        /\ UNCHANGED <<attempts, grade, sub, call, imports, mixed>>

\* It grades the answers of every attempt; a manual override it read is kept.
RegradesAnswerMutant(i, a) == a[1] \in i.attempts \cup i.new
RegradesAnswer(i, a) ==
    a[1] \in i.attempts \cup i.new /\ i.grade[a].status # "manual_override"

\* An answer has one grade (Grade.attempt_answer_id is unique).
ImportCommits(w) ==
    \E i \in import[w] :
        LET S == {a \in Answers : RegradesAnswer(i, a)}
        IN  \E n \in [S -> 0..MaxPoints] :
              LET new == [a \in Answers |-> IF a \in S THEN [status |-> "proposed", points |-> n[a]]
                                            ELSE i.grade[a]]
              IN  /\ i.graded
                  /\ \A a \in S : i.grade[a] = NoGrade => grade[a] = NoGrade
                  /\ grade' = GradesAfter(i.grade, new)
                  /\ sub' = SubAfter(i.sub, Aggregate(new, i.attempts \cup i.new))
                  /\ attempts' = attempts \cup i.new
                  /\ import' = [import EXCEPT ![w] = {}]
                  /\ mixed' = Overtaken(i)
                  /\ UNCHANGED <<call, imports>>

\* Grading raised: its SAVEPOINT is rolled back, the submission is flagged,
\* the attempts stay.
ImportGradingFails(w) ==
    \E i \in import[w] :
        /\ attempts' = attempts \cup i.new
        /\ sub' = SubAfter(i.sub, [i.sub EXCEPT !.status = "import_grading_failed"])
        /\ import' = [import EXCEPT ![w] = {}]
        /\ mixed' = (mixed \/ i.sub # sub)
        /\ UNCHANGED <<grade, call, imports>>

\* The whole import is rolled back (ImportJob).
ImportLost(w) ==
    /\ import[w] # {}
    /\ import' = [import EXCEPT ![w] = {}]
    /\ UNCHANGED <<attempts, grade, sub, call, imports, mixed>>

GradingNext ==
    \/ \E p \in Processes : \/ \E a \in Answers : ReviewOne(p, a)
                            \/ BulkApprove(p)
                            \/ \E q \in Questions : Regrade(p, q)
                            \/ Commit(p)
    \/ \E w \in Workers : \/ \E new \in SUBSET (AllAttempts \ attempts) : ImportReads(w, new)
                          \/ ImportGrades(w)
                          \/ ImportCommits(w)
                          \/ ImportGradingFails(w)
                          \/ ImportLost(w)

GradingSpec == GradingInit /\ [][GradingNext]_gradingVars

-----------------------------------------------------------------------------
(***************************************************************************)
(* Properties                                                              *)
(***************************************************************************)

\* _refresh_submission_aggregate keeps the denormalised columns in step with
\* the grades: whatever crossed before, once a review or an import has computed
\* them with nothing in between, and until the next crossing, the submission
\* carries the points and the status of the attempt its strategy picks.
AggregateExact ==
    ~mixed /\ attempts # {} /\ sub.status # "import_grading_failed"
        => sub = Aggregate(grade, attempts)

\* A submission reads fully_reviewed, and is exported and sent to Moodle, only
\* when the attempt that counts has a grade for every answer and no open-ended
\* grade is still a proposal; or it has no grade at all, since the grading of the
\* import that brought it failed.
GradedWhole(at) == \A q \in Questions : grade[<<at, q>>] # NoGrade
Ungraded(at) == \A q \in Questions : grade[<<at, q>>] = NoGrade

FullyReviewedIsReviewed ==
    ~mixed /\ sub.status = "fully_reviewed" =>
        \/ Ungraded(sub.graded)
        \/ /\ GradedWhole(sub.graded)
           /\ \A q \in OpenEnded : grade[<<sub.graded, q>>].status \in Reviewed

\* What the lists, the exports and the push read of a submission is what its
\* grades say, unless the last one to write it had been overtaken.
SubmissionFollowsGrades == AggregateExact /\ FullyReviewedIsReviewed

\* A grade the teacher set keeps its points until another override, and its status
\* until another review of it; it is lost only to a review or an import that had
\* read the grade before it was set, never to one that began afterwards.
OverrideKept ==
    [][\A a \in Answers : grade[a].status = "manual_override" /\ grade'[a] # grade[a] =>
          \/ \E p \in Processes : \E c \in call[p] :
                /\ call'[p] = {}
                /\ \/ c.grade[a].status # "manual_override"
                   \/ /\ c.on = {a}
                      /\ \/ c.op = "override"
                         \/ c.op = "approve" /\ grade'[a].points = grade[a].points
          \/ \E w \in Workers : \E i \in import[w] :
                import'[w] = {} /\ i.grade[a].status # "manual_override"
      ]_gradingVars

\* What is not so (README, section 4): "manual_override is sacrosanct"
\* (grading_service.py, _grade_attempt_answers), and "Any pending review means at
\* least one grade is unverbindlich" (api/grade_export.py) without the exception
\* above.
Sacrosanct ==
    [][\A a \in Answers : grade[a].status = "manual_override" =>
          grade'[a].status = "manual_override" \/ \E p \in Processes : call'[p] # call[p]]_gradingVars
FullyReviewedIsGraded ==
    sub.status = "fully_reviewed" => GradedWhole(sub.graded)
OverriddenSubmissionFollows ==
    attempts # {} /\ sub.status # "import_grading_failed" => sub = Aggregate(grade, attempts)
=============================================================================
