---------------------------- MODULE ExamComposer ----------------------------
(***************************************************************************)
(* One exam while it is composed from the question pool, finalized,        *)
(* exported, archived and deleted (backend/api/exams.py), together with    *)
(* the review state of the questions it may use (backend/api/              *)
(* question_review.py) and the import of student results.                  *)
(*                                                                         *)
(* A handler loads the exam, checks it and commits; nothing is locked in   *)
(* between.  Handlers are coroutines that never await, so one server       *)
(* process runs them one after the other: Workers are the processes, one   *)
(* in Dockerfile.fly, two in Dockerfile.production.  A handler that needs  *)
(* only its own row (review, archive) is one step of an idle worker.       *)
(***************************************************************************)
EXTENDS Integers, FiniteSets, FiniteSetsExt, Functions

CONSTANTS
    Workers,      \* server processes
    Questions,    \* rows of question_reviews the exam may use
    Points,       \* points a user may set on an exam question (bound)
    Suggested,    \* suggest_points
    MaxPosition,  \* the largest position that is given out (bound)
    Sent,         \* the requests that clients send (bound)
    None          \* no row, no value

Item == [position : Int, points : Nat]

ASSUME ComposerAssumption ==
    /\ None \notin Item \cup Int
    /\ IsFiniteSet(Questions)
    /\ Points \subseteq Nat
    /\ Suggested \in Nat
    /\ MaxPosition \in Nat

VARIABLES
    status,       \* exam.status, "deleted" once its row is gone
    archived,     \* exam.archived_at IS NOT NULL
    total,        \* exam.total_points
    item,         \* exam_questions: the row of each question, or None
    review,       \* "approved", another review_status, or no row any more
    shelved,      \* question.archived_at IS NOT NULL
    submissions,  \* does the exam have student submissions?
    req           \* what each worker's request has read and will write

examVars == <<status, archived, total>>
poolVars == <<review, shelved>>
vars == <<examVars, item, poolVars, submissions, req>>

Nothing == [q \in Questions |-> None]

Placed(rows) == {q \in DOMAIN rows : rows[q] # None}
Positions(rows) == {rows[q].position : q \in Placed(rows)}
HighestPosition == Max({MaxPosition, Cardinality(Questions)})

ContentOps == {"add", "points", "remove"}
Ops == ContentOps \cup {"idle", "reorder", "finalize", "unfinalize", "export",
                        "archive", "restore", "deleteExam", "deleteQuestion"}

\* A request: the rows it inserts, the columns it sets, the rows it deletes,
\* the rows another request deleted under it, and the total it computed.
Request == [op : Ops, flushed : BOOLEAN, insert : [Questions -> Item \cup {None}],
            position : [Questions -> Int \cup {None}],
            points : [Questions -> Nat \cup {None}],
            delete : SUBSET Questions, gone : SUBSET Questions,
            total : Nat \cup {None}]

Idle == [op |-> "idle", flushed |-> FALSE, insert |-> Nothing,
         position |-> Nothing, points |-> Nothing, delete |-> {}, gone |-> {},
         total |-> None]

TypeOK ==
    /\ status \in {"draft", "finalized", "exported", "deleted"}
    /\ archived \in BOOLEAN
    /\ total \in Nat
    /\ item \in [Questions -> Item \cup {None}]
    /\ \A q \in Placed(item) : item[q].position <= HighestPosition
    /\ review \in [Questions -> {"open", "approved", "deleted"}]
    /\ shelved \in [Questions -> BOOLEAN]
    /\ submissions \in BOOLEAN
    /\ req \in [Workers -> Request]

Init ==
    /\ status = "draft"
    /\ archived = FALSE
    /\ total = 0
    /\ item = [q \in Questions |-> None]
    /\ review = [q \in Questions |-> "open"]
    /\ shelved = [q \in Questions |-> FALSE]
    /\ submissions = FALSE
    /\ req = [w \in Workers |-> Idle]

-----------------------------------------------------------------------------
(***************************************************************************)
(* The rows of the exam                                                    *)
(***************************************************************************)

LastPosition == IF Placed(item) = {} THEN 0 ELSE Max(Positions(item))

\* recalculate_total_points
SumOfPoints(rows) == MapThenSumSet(LAMBDA q : rows[q].points, Placed(rows))

\* The rows after a request's INSERTs, UPDATEs and DELETEs.  A column that
\* the request did not change is not written.
Apply(rows, r) ==
    [q \in Questions |->
        IF q \in r.delete \ r.gone THEN None
        ELSE IF r.insert[q] # None THEN r.insert[q]
        ELSE IF rows[q] = None THEN None
        ELSE [position |-> IF r.position[q] # None THEN r.position[q]
                           ELSE rows[q].position,
              points |-> IF r.points[q] # None THEN r.points[q]
                         ELSE rows[q].points]]

Inserted(r) == Placed(r.insert)
Moved(r) == {q \in Questions : r.position[q] # None}
Updated(r) == Moved(r) \cup {q \in Questions : r.points[q] # None}
Touched(r) == Inserted(r) \cup Updated(r) \cup r.delete

\* uq_exam_position
DistinctMutant(rows) == TRUE
Distinct(rows) ==
    \A p, q \in Placed(rows) :
        p # q => rows[p].position # rows[q].position

\* The foreign key from exam_questions to question_reviews.
QuestionExistsMutant(q) == TRUE
QuestionExists(q) == review[q] # "deleted"

\* May the writes of r go to the database?  An UPDATE of a vanished row
\* raises StaleDataError, the others violate a constraint of exam_questions.
\* The constraint holds after each statement: a reordering first negates all
\* positions, and UPDATEs are sent before DELETEs.  In which order the rows
\* of one UPDATE follow (by id) is left out; it can only refuse more.
Accepted(r) ==
    /\ status # "deleted"
    /\ Updated(r) \cap r.gone = {}
    /\ \A q \in Inserted(r) : item[q] = None /\ QuestionExists(q)
    /\ r.op = "reorder" =>
           \A p, q \in Placed(item) :
               p # q => item[p].position # 0 - item[q].position
    /\ Distinct(Apply(item, [r EXCEPT !.delete = {}]))

\* The row locks and index entries of a request in its transaction.
Entries(r) ==
    {item[q].position : q \in (Moved(r) \cup r.delete) \cap Placed(item)}
    \cup {r.position[q] : q \in Moved(r)}
    \cup Positions(r.insert)

MustWait(w) ==
    \E v \in Workers \ {w} :
        /\ req[v].flushed
        /\ \/ Touched(req[v]) \cap Touched(req[w]) # {}
           \/ Entries(req[v]) \cap Entries(req[w]) # {}

-----------------------------------------------------------------------------
(***************************************************************************)
(* Handlers of api/exams.py.  The first step of each reads the exam and    *)
(* passes the handler's checks.                                            *)
(***************************************************************************)

Free(w) == req[w].op = "idle"
Loads(w, r) ==
    /\ Free(w)
    /\ r.op \in Sent
    /\ status # "deleted"
    /\ req' = [req EXCEPT ![w] = r]
    /\ UNCHANGED <<examVars, item, poolVars, submissions>>

\* _require_draft
Draft == status = "draft"

\* Races can let positions grow for ever.
Room(S) == LastPosition + Cardinality(S) <= MaxPosition

\* New rows for the questions in S, numbered after the last position.
Appended(S) ==
    {[q \in Questions |->
         IF q \in S
         THEN [position |-> LastPosition + rank[q], points |-> Suggested]
         ELSE None] : rank \in Bijection(S, 1..Cardinality(S))}

\* A manual choice: questions already in the exam are skipped, the others
\* must be approved.  An archived question is not refused.
AddQuestions(w, S) ==
    LET new == S \ Placed(item) IN
    /\ S # {}
    /\ Draft
    /\ Room(new)
    /\ \A q \in new : review[q] = "approved"
    /\ \E rows \in Appended(new) :
           Loads(w, [Idle EXCEPT !.op = "add", !.insert = rows])

\* auto-fill: some of the approved, not archived questions outside the exam.
Candidates ==
    {q \in Questions \ Placed(item) : review[q] = "approved" /\ ~shelved[q]}

AutoFill(w, S) ==
    /\ Draft
    /\ Room(S)
    /\ S \subseteq Candidates
    /\ S # {}
    /\ \E rows \in Appended(S) :
           Loads(w, [Idle EXCEPT !.op = "add", !.insert = rows])

UpdateExamQuestion(w, q, p) ==
    /\ Draft
    /\ q \in Placed(item)
    /\ Loads(w, [Idle EXCEPT !.op = "points",
                     !.points = IF item[q].points = p THEN Nothing
                                ELSE [Nothing EXCEPT ![q] = p]])

\* The rows are numbered while the removed one is still among them: the
\* session does not flush the DELETE before the query (autoflush=False).
Rank(q) ==
    Cardinality({x \in Placed(item) : item[x].position <= item[q].position})

RemoveExamQuestion(w, q) ==
    /\ Draft
    /\ q \in Placed(item)
    /\ Loads(w, [Idle EXCEPT !.op = "remove", !.delete = {q},
                     !.position = [x \in Questions |->
                         IF x \in Placed(item) \ {q} /\ Rank(x) # item[x].position
                         THEN Rank(x) ELSE None]])

\* All positions are negated first; rows that "order" leaves out stay so.
\* The new positions are the client's: any of 1..MaxPosition, even twice.
ReorderQuestions(w, order) ==
    /\ Draft
    /\ DOMAIN order \subseteq Placed(item)
    /\ Loads(w, [Idle EXCEPT !.op = "reorder",
                     !.position = [q \in Questions |->
                         IF q \in DOMAIN order THEN order[q]
                         ELSE IF q \in Placed(item) THEN 0 - item[q].position
                         ELSE None]])

\* Not empty, every question still approved.
Finalizable ==
    /\ Placed(item) # {}
    /\ \A q \in Placed(item) : review[q] = "approved"

FinalizeExam(w) ==
    /\ Draft
    /\ Finalizable
    /\ Loads(w, [Idle EXCEPT !.op = "finalize"])

UnfinalizeExam(w) ==
    /\ status \in {"finalized", "exported"}
    /\ Loads(w, [Idle EXCEPT !.op = "unfinalize"])

\* Only the first export of a finalized exam changes the row.
ExportExam(w) ==
    /\ Placed(item) # {}
    /\ status = "finalized"
    /\ Loads(w, [Idle EXCEPT !.op = "export"])

ArchiveExam(w) == ~archived /\ Loads(w, [Idle EXCEPT !.op = "archive"])
RestoreExam(w) == archived /\ Loads(w, [Idle EXCEPT !.op = "restore"])

\* _exam_delete_block_reason
DeleteExam(w) ==
    /\ archived
    /\ status # "exported"
    /\ ~submissions
    /\ Loads(w, [Idle EXCEPT !.op = "deleteExam"])

-----------------------------------------------------------------------------
(***************************************************************************)
(* Flush and commit                                                        *)
(***************************************************************************)

\* A request about the exam's questions flushes its rows and adds up the
\* points of what it then sees; total_points is written only if it changed.
FlushRecalculatesMutant(w) == SumOfPoints(item)
FlushRecalculates(w) == SumOfPoints(Apply(item, req[w]))

Flush(w) ==
    /\ req[w].op \in ContentOps
    /\ ~req[w].flushed
    /\ ~MustWait(w)
    /\ Accepted(req[w])
    /\ req' = [req EXCEPT ![w] = [@ EXCEPT !.flushed = TRUE,
                   !.total = IF FlushRecalculates(w) = total THEN None
                             ELSE FlushRecalculates(w)]]
    /\ UNCHANGED <<examVars, item, poolVars, submissions>>

\* The request of w ends; the others learn which rows are gone.
EndsDeleting(w, rows) ==
    req' = [v \in Workers |->
               IF v = w THEN Idle
               ELSE [req[v] EXCEPT !.gone =
                        @ \cup (rows \cap (Updated(req[v]) \cup req[v].delete))]]

CommitContent(w) ==
    /\ req[w].flushed
    /\ item' = Apply(item, req[w])
    /\ total' = IF req[w].total = None THEN total ELSE req[w].total
    /\ EndsDeleting(w, req[w].delete)
    /\ UNCHANGED <<status, archived, poolVars, submissions>>

CommitReorder(w) ==
    /\ req[w].op = "reorder"
    /\ ~MustWait(w)
    /\ Accepted(req[w])
    /\ item' = Apply(item, req[w])
    /\ EndsDeleting(w, {})
    /\ UNCHANGED <<examVars, poolVars, submissions>>

\* The handlers that set one column of the exam's row.
CommitExam(w) ==
    /\ status # "deleted"
    /\ \/ /\ req[w].op = "finalize" /\ status' = "finalized"
          /\ UNCHANGED archived
       \/ /\ req[w].op = "unfinalize" /\ status' = "draft"
          /\ UNCHANGED archived
       \/ /\ req[w].op = "export" /\ status' = "exported"
          /\ UNCHANGED archived
       \/ /\ req[w].op = "archive" /\ archived' = TRUE
          /\ UNCHANGED status
       \/ /\ req[w].op = "restore" /\ archived' = FALSE
          /\ UNCHANGED status
    /\ EndsDeleting(w, {})
    /\ UNCHANGED <<total, item, poolVars, submissions>>

\* The DELETE waits for requests that hold rows of the exam, then takes its
\* questions and submissions along (ON DELETE CASCADE).
CommitDeleteExam(w) ==
    /\ req[w].op = "deleteExam"
    /\ status # "deleted"
    /\ \A v \in Workers : ~req[v].flushed
    /\ status' = "deleted"
    /\ item' = [q \in Questions |-> None]
    /\ submissions' = FALSE
    /\ EndsDeleting(w, Placed(item))
    /\ UNCHANGED <<archived, total, poolVars>>

\* An error, a constraint or the database ends the request without effect.
Rollback(w) ==
    /\ ~Free(w)
    /\ req' = [req EXCEPT ![w] = Idle]
    /\ UNCHANGED <<examVars, item, poolVars, submissions>>

-----------------------------------------------------------------------------
(***************************************************************************)
(* Handlers of api/question_review.py, and the import of results           *)
(***************************************************************************)

\* approve, edit and reject ask neither for the exam nor for the status.
ReviewQuestion(w, q) ==
    /\ Free(w)
    /\ review[q] # "deleted"
    /\ review' = [review EXCEPT ![q] = IF @ = "open" THEN "approved" ELSE "open"]
    /\ UNCHANGED <<examVars, item, shelved, submissions, req>>

ShelveQuestion(w, q) ==
    /\ Free(w)
    /\ review[q] # "deleted"
    /\ shelved' = [shelved EXCEPT ![q] = ~@]
    /\ UNCHANGED <<examVars, item, review, submissions, req>>

\* _question_delete_block_reason: archived and in no exam.
QuestionDeletableMutant(q) == shelved[q]
QuestionDeletable(q) == shelved[q] /\ item[q] = None

DeleteQuestion(w, q) ==
    /\ Free(w)
    /\ review[q] # "deleted"
    /\ QuestionDeletable(q)
    /\ "deleteQuestion" \in Sent
    /\ req' = [req EXCEPT ![w] = [Idle EXCEPT !.op = "deleteQuestion",
                                              !.delete = {q}]]
    /\ UNCHANGED <<examVars, item, poolVars, submissions>>

\* The DELETE waits for a request that inserts or changes the exam's row of
\* the question, and takes that row along; no total is recalculated.
CommitDeleteQuestion(w) ==
    /\ req[w].op = "deleteQuestion"
    /\ ~MustWait(w)
    /\ \A q \in req[w].delete : review[q] # "deleted"
    /\ review' = [q \in Questions |->
                     IF q \in req[w].delete THEN "deleted" ELSE review[q]]
    /\ item' = [q \in Questions |->
                   IF q \in req[w].delete THEN None ELSE item[q]]
    /\ EndsDeleting(w, req[w].delete)
    /\ UNCHANGED <<examVars, shelved, submissions>>

\* ImportService.commit runs in a Celery worker and takes an exam in any
\* state.
ImportSubmissions ==
    /\ status # "deleted"
    /\ submissions' = TRUE
    /\ UNCHANGED <<examVars, item, poolVars, req>>

-----------------------------------------------------------------------------
Compose(w) ==
    \/ \E S \in SUBSET Questions : AddQuestions(w, S) \/ AutoFill(w, S)
    \/ \E q \in Questions : \E p \in Points : UpdateExamQuestion(w, q, p)
    \/ \E q \in Questions : RemoveExamQuestion(w, q)
    \/ \E S \in SUBSET Questions :
           \E order \in [S -> 1..MaxPosition] : ReorderQuestions(w, order)

Administer(w) ==
    \/ FinalizeExam(w)
    \/ UnfinalizeExam(w)
    \/ ExportExam(w)
    \/ ArchiveExam(w)
    \/ RestoreExam(w)
    \/ DeleteExam(w)

Ends(w) ==
    \/ Flush(w)
    \/ CommitContent(w)
    \/ CommitReorder(w)
    \/ CommitExam(w)
    \/ CommitDeleteExam(w)
    \/ CommitDeleteQuestion(w)
    \/ Rollback(w)

Review(w, q) ==
    ReviewQuestion(w, q) \/ ShelveQuestion(w, q) \/ DeleteQuestion(w, q)

Next ==
    \/ \E w \in Workers :
           \/ Compose(w)
           \/ Administer(w)
           \/ Ends(w)
           \/ \E q \in Questions : Review(w, q)
    \/ ImportSubmissions

Spec == Init /\ [][Next]_vars

-----------------------------------------------------------------------------
(***************************************************************************)
(* Properties                                                              *)
(***************************************************************************)

\* uq_exam_position: positions are computed from rows that may be stale when
\* they are written, yet no two questions of the exam share one.
PositionsDistinct ==
    \A p, q \in Placed(item) : p # q => item[p].position # item[q].position

\* The foreign key of exam_questions: whatever request deletes a question
\* while another adds it, the exam has no row for a question that is gone.
PlacedQuestionsExist == \A q \in Placed(item) : review[q] # "deleted"

\* recalculate_total_points: total_points is the sum over the exam's rows
\* after every request that changes them.
TotalIsSum == status # "deleted" => total = SumOfPoints(item)

\* _require_draft: the questions, positions and points of an exam that is
\* not a draft do not change.
FrozenUnlessDraft ==
    [][(status # "draft" /\ status' # "deleted")
           => (item' = item /\ total' = total)]_vars

\* finalize_exam: an exam is finalized only with questions, all of them
\* still approved at that moment.
FinalizedApproved ==
    [][(status = "draft" /\ status' = "finalized")
           => /\ Placed(item) # {}
              /\ \A q \in Placed(item) : review[q] = "approved"]_vars

\* delete_question: a question that is in the exam is never hard-deleted.
UsedQuestionsKept ==
    [][\A q \in Questions : item[q] # None => review'[q] # "deleted"]_vars

\* The guards of the composer and of the question list together: what an exam
\* promises once it left the draft, when it leaves it, and to its questions.
ExamKept == FrozenUnlessDraft /\ FinalizedApproved /\ UsedQuestionsKept

\* delete_exam: an exam with submissions does not disappear.  TLC refutes it
\* (README, section 4).
SubmissionsKept == [][submissions => status' # "deleted"]_vars

\* remove_exam_question: "re-number remaining positions".
RemovalRenumbers ==
    [][\A q \in Questions :
          (/\ item[q] # None /\ item'[q] = None
           /\ status' # "deleted" /\ review'[q] # "deleted")
          => Positions(item') = 1..Cardinality(Placed(item'))]_vars

=============================================================================
