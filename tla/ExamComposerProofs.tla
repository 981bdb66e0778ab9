------------------------- MODULE ExamComposerProofs -------------------------
(***************************************************************************)
(* What ExamComposer keeps for any questions, points and positions.        *)
(*                                                                         *)
(* With any number of server processes the foreign key of exam_questions   *)
(* holds at every commit, and no two rows share a position.  With one      *)
(* process (Dockerfile.fly) a request's checks still hold when it commits, *)
(* because no other request ran in between: that is GuardsHold, and the    *)
(* three promises of the handlers follow from it.  With two processes TLC  *)
(* refutes all three.                                                      *)
(*                                                                         *)
(* Then what becomes of an exam before and after: the automatic choice of  *)
(* its questions fills the budget; a grading scheme that could be saved    *)
(* grades every percentage and never punishes points; and the platforms    *)
(* an exam is exported to pay an answer what ExamCraft's grader pays it.   *)
(***************************************************************************)
EXTENDS ExamComposer, AutoCompose, QuizExport, Sums, SequenceTheorems

\* A request has its fields and nothing else.
WellFormed(r) ==
    /\ r = [op |-> r.op, flushed |-> r.flushed, insert |-> r.insert,
            position |-> r.position, points |-> r.points,
            delete |-> r.delete, gone |-> r.gone, total |-> r.total]
    /\ DOMAIN r.insert = Questions
    /\ r.delete \subseteq Questions
    /\ r.flushed \in BOOLEAN

Typed ==
    /\ req = [w \in Workers |-> req[w]]
    /\ \A w \in Workers : WellFormed(req[w])
    /\ item = [q \in Questions |-> item[q]]
    /\ review \in [Questions -> {"open", "approved", "deleted"}]

\* Only a request about the exam's questions flushes.
FlushedAreContent ==
    \A w \in Workers : req[w].flushed => req[w].op \in ContentOps

\* The key share lock of a flushed INSERT keeps its question alive.
FlushedInsertsExist ==
    \A w \in Workers : req[w].flushed =>
        \A q \in Inserted(req[w]) : review[q] # "deleted"

KeyInv == Typed /\ FlushedAreContent /\ FlushedInsertsExist /\ PlacedQuestionsExist

OneWorker == \A v, w \in Workers : v = w

\* What a request relied on when it was read.
Guard(r) ==
    /\ r.op \in ContentOps \cup {"reorder", "finalize"} => status = "draft"
    /\ r.op = "finalize" =>
           /\ Placed(item) # {}
           /\ \A q \in Placed(item) : review[q] = "approved"
    /\ r.op = "deleteQuestion" => \A q \in r.delete : item[q] = None
    /\ r.op = "reorder" => r.insert = Nothing /\ r.points = Nothing /\ r.delete = {}

GuardsHold == \A w \in Workers : Guard(req[w])

GuardInv == Typed /\ FlushedAreContent /\ GuardsHold

-----------------------------------------------------------------------------
(***************************************************************************)
(* The first step of a request                                             *)
(***************************************************************************)

Starts(w, r) ==
    /\ req[w].op = "idle"
    /\ req' = [req EXCEPT ![w] = r]
    /\ UNCHANGED <<examVars, item, poolVars, submissions>>

LEMMA IdleWellFormed == WellFormed(Idle) /\ ~Idle.flushed /\ Idle.op = "idle"
BY DEF WellFormed, Idle, Nothing

\* Every handler starts with a well-formed request whose guard holds.
LEMMA Starting ==
    ASSUME NEW w \in Workers,
           Compose(w) \/ Administer(w) \/ \E q \in Questions : DeleteQuestion(w, q)
    PROVE  \E r : Starts(w, r) /\ WellFormed(r) /\ ~r.flushed /\ Guard(r)
<1>1. CASE \E S \in SUBSET Questions : AddQuestions(w, S)
  <2>1. PICK S \in SUBSET Questions : AddQuestions(w, S)
    BY <1>1
  <2>2. PICK rows \in Appended(S \ Placed(item)) :
            Loads(w, [Idle EXCEPT !.op = "add", !.insert = rows])
    BY <2>1 DEF AddQuestions
  <2>3. DOMAIN rows = Questions
    BY <2>2 DEF Appended
  <2>4. status = "draft"
    BY <2>1 DEF AddQuestions, Draft
  <2>a. PICK r : r = [Idle EXCEPT !.op = "add", !.insert = rows]
    OBVIOUS
  <2>5. Starts(w, r)
    BY <2>a, <2>2 DEF Loads, Starts, Free
  <2>6. WellFormed(r) /\ ~r.flushed /\ Guard(r)
    BY <2>a, <2>3, <2>4 DEF WellFormed, Idle, Nothing, Guard, ContentOps
  <2> QED BY <2>5, <2>6
<1>2. CASE \E S \in SUBSET Questions : AutoFill(w, S)
  <2>1. PICK S \in SUBSET Questions : AutoFill(w, S)
    BY <1>2
  <2>2. PICK rows \in Appended(S) :
            Loads(w, [Idle EXCEPT !.op = "add", !.insert = rows])
    BY <2>1 DEF AutoFill
  <2>3. DOMAIN rows = Questions
    BY <2>2 DEF Appended
  <2>4. status = "draft"
    BY <2>1 DEF AutoFill, Draft
  <2>a. PICK r : r = [Idle EXCEPT !.op = "add", !.insert = rows]
    OBVIOUS
  <2>5. Starts(w, r)
    BY <2>a, <2>2 DEF Loads, Starts, Free
  <2>6. WellFormed(r) /\ ~r.flushed /\ Guard(r)
    BY <2>a, <2>3, <2>4 DEF WellFormed, Idle, Nothing, Guard, ContentOps
  <2> QED BY <2>5, <2>6
<1>3. CASE \E q \in Questions : \E p \in Points : UpdateExamQuestion(w, q, p)
  <2>1. PICK q \in Questions, p \in Points : UpdateExamQuestion(w, q, p)
    BY <1>3
  <2>a. PICK r : r = [Idle EXCEPT !.op = "points",
                       !.points = IF item[q].points = p THEN Nothing
                                  ELSE [Nothing EXCEPT ![q] = p]]
    OBVIOUS
  <2>2. Starts(w, r) /\ status = "draft"
    BY <2>a, <2>1 DEF UpdateExamQuestion, Draft, Loads, Starts, Free
  <2>3. WellFormed(r) /\ ~r.flushed /\ Guard(r)
    BY <2>a, <2>2 DEF WellFormed, Idle, Nothing, Guard, ContentOps
  <2> QED BY <2>2, <2>3
<1>4. CASE \E q \in Questions : RemoveExamQuestion(w, q)
  <2>1. PICK q \in Questions : RemoveExamQuestion(w, q)
    BY <1>4
  <2>a. PICK r : r = [Idle EXCEPT !.op = "remove", !.delete = {q},
                       !.position = [x \in Questions |->
                           IF x \in Placed(item) \ {q} /\ Rank(x) # item[x].position
                           THEN Rank(x) ELSE None]]
    OBVIOUS
  <2>2. Starts(w, r) /\ status = "draft"
    BY <2>a, <2>1 DEF RemoveExamQuestion, Draft, Loads, Starts, Free
  <2>3. WellFormed(r) /\ ~r.flushed /\ Guard(r)
    BY <2>a, <2>2 DEF WellFormed, Idle, Nothing, Guard, ContentOps
  <2> QED BY <2>2, <2>3
<1>5. CASE \E S \in SUBSET Questions :
               \E order \in [S -> 1..MaxPosition] : ReorderQuestions(w, order)
  <2>0. PICK S \in SUBSET Questions :
            \E order \in [S -> 1..MaxPosition] : ReorderQuestions(w, order)
    BY <1>5
  <2>1. PICK order \in [S -> 1..MaxPosition] : ReorderQuestions(w, order)
    BY <2>0
  <2>a. PICK r : r = [Idle EXCEPT !.op = "reorder",
                       !.position = [q \in Questions |->
                           IF q \in DOMAIN order THEN order[q]
                           ELSE IF q \in Placed(item) THEN 0 - item[q].position
                           ELSE None]]
    OBVIOUS
  <2>2. Starts(w, r) /\ status = "draft"
    BY <2>a, <2>1 DEF ReorderQuestions, Draft, Loads, Starts, Free
  <2>3. WellFormed(r) /\ ~r.flushed /\ Guard(r)
    BY <2>a, <2>2 DEF WellFormed, Idle, Nothing, Guard, ContentOps
  <2> QED BY <2>2, <2>3
<1>6. CASE FinalizeExam(w)
  <2>a. PICK r : r = [Idle EXCEPT !.op = "finalize"]
    OBVIOUS
  <2>1. Starts(w, r) /\ status = "draft" /\ Finalizable
    BY <2>a, <1>6 DEF FinalizeExam, Draft, Loads, Starts, Free
  <2>2. WellFormed(r) /\ ~r.flushed /\ Guard(r)
    BY <2>a, <2>1 DEF WellFormed, Idle, Nothing, Guard, ContentOps, Finalizable
  <2> QED BY <2>1, <2>2
<1>7. CASE \/ UnfinalizeExam(w) \/ ExportExam(w) \/ ArchiveExam(w)
           \/ RestoreExam(w) \/ DeleteExam(w)
  <2>1. PICK o \in {"unfinalize", "export", "archive", "restore", "deleteExam"} :
            Loads(w, [Idle EXCEPT !.op = o])
    BY <1>7 DEF UnfinalizeExam, ExportExam, ArchiveExam, RestoreExam, DeleteExam
  <2>a. PICK r : r = [Idle EXCEPT !.op = o]
    OBVIOUS
  <2>2. Starts(w, r)
    BY <2>a, <2>1 DEF Loads, Starts, Free
  <2>3. WellFormed(r) /\ ~r.flushed /\ Guard(r)
    BY <2>a DEF WellFormed, Idle, Nothing, Guard, ContentOps
  <2> QED BY <2>2, <2>3
<1>8. CASE \E q \in Questions : DeleteQuestion(w, q)
  <2>1. PICK q \in Questions : DeleteQuestion(w, q)
    BY <1>8
  <2>a. PICK r : r = [Idle EXCEPT !.op = "deleteQuestion", !.delete = {q}]
    OBVIOUS
  <2>2. Starts(w, r) /\ item[q] = None
    BY <2>a, <2>1 DEF DeleteQuestion, QuestionDeletable, Starts, Free
  <2>3. WellFormed(r) /\ ~r.flushed /\ Guard(r)
    BY <2>a, <2>2 DEF WellFormed, Idle, Nothing, Guard, ContentOps
  <2> QED BY <2>2, <2>3
<1> QED
  BY <1>1, <1>2, <1>3, <1>4, <1>5, <1>6, <1>7, <1>8 DEF Compose, Administer

-----------------------------------------------------------------------------
(***************************************************************************)
(* What a step does to the requests                                        *)
(***************************************************************************)

SameWrites(r, s) ==
    /\ r.insert = s.insert /\ r.position = s.position
    /\ r.points = s.points /\ r.delete = s.delete

\* A request that ends leaves the others as they are, but for "gone".
LEMMA Ending ==
    ASSUME Typed, NEW w \in Workers, NEW rows, EndsDeleting(w, rows)
    PROVE  /\ req' = [v \in Workers |-> req'[v]]
           /\ \A v \in Workers : WellFormed(req'[v])
           /\ req'[w] = Idle
           /\ \A v \in Workers \ {w} :
                  /\ req'[v].op = req[v].op
                  /\ req'[v].flushed = req[v].flushed
                  /\ req'[v].insert = req[v].insert
                  /\ req'[v].delete = req[v].delete
                  /\ SameWrites(req'[v], req[v])
<1>1. req' = [v \in Workers |-> req'[v]]
  BY DEF EndsDeleting
<1>2. req'[w] = Idle
  BY DEF EndsDeleting
<1>3. ASSUME NEW v \in Workers \ {w}
      PROVE  /\ WellFormed(req'[v])
             /\ req'[v].op = req[v].op
             /\ req'[v].flushed = req[v].flushed
             /\ req'[v].insert = req[v].insert
             /\ req'[v].delete = req[v].delete
             /\ SameWrites(req'[v], req[v])
  <2>1. WellFormed(req[v])
    BY DEF Typed
  <2>2. PICK g : req'[v] = [req[v] EXCEPT !.gone = g]
    BY DEF EndsDeleting
  <2> QED
    BY <2>1, <2>2 DEF WellFormed, SameWrites
<1> QED
  BY <1>1, <1>2, <1>3, IdleWellFormed

LEMMA Flushing ==
    ASSUME Typed, NEW w \in Workers, Flush(w)
    PROVE  /\ req' = [v \in Workers |-> req'[v]]
           /\ \A v \in Workers :
                  /\ WellFormed(req'[v])
                  /\ req'[v].op = req[v].op
                  /\ req'[v].insert = req[v].insert
                  /\ req'[v].delete = req[v].delete
                  /\ SameWrites(req'[v], req[v])
           /\ req'[w].flushed
           /\ \A v \in Workers \ {w} : req'[v] = req[v]
<1>1. PICK t : req' = [req EXCEPT ![w] = [@ EXCEPT !.flushed = TRUE, !.total = t]]
  BY DEF Flush
<1>2. req' = [v \in Workers |-> req'[v]] /\ \A v \in Workers \ {w} : req'[v] = req[v]
  BY <1>1 DEF Typed
<1>3. WellFormed(req[w])
  BY DEF Typed
<1>4. req'[w] = [req[w] EXCEPT !.flushed = TRUE, !.total = t]
  BY <1>1, <1>3 DEF Typed, WellFormed
<1>5. /\ WellFormed(req'[w])
      /\ req'[w].op = req[w].op
      /\ req'[w].insert = req[w].insert
      /\ req'[w].delete = req[w].delete
      /\ SameWrites(req'[w], req[w])
      /\ req'[w].flushed
  BY <1>3, <1>4 DEF WellFormed, SameWrites
<1>6. \A v \in Workers \ {w} : SameWrites(req'[v], req[v])
  BY <1>2 DEF SameWrites
<1> QED
  BY <1>2, <1>5, <1>6 DEF Typed

\* The handlers that touch no request.
Outside ==
    \/ \E w \in Workers, q \in Questions : ReviewQuestion(w, q) \/ ShelveQuestion(w, q)
    \/ ImportSubmissions
    \/ UNCHANGED vars

\* A step of Next, seen from the request that takes it.
LEMMA NextCases ==
    ASSUME [Next]_vars
    PROVE  \/ \E w \in Workers :
                  \/ \E r : Starts(w, r) /\ WellFormed(r) /\ ~r.flushed /\ Guard(r)
                  \/ Flush(w)
                  \/ CommitContent(w)
                  \/ CommitReorder(w)
                  \/ CommitExam(w)
                  \/ CommitDeleteExam(w)
                  \/ CommitDeleteQuestion(w)
                  \/ Rollback(w)
           \/ Outside
  BY Starting DEF Next, Ends, Review, Outside

LEMMA TypedInit == Init => Typed /\ FlushedAreContent
  BY IdleWellFormed DEF Init, Typed, FlushedAreContent, ContentOps

LEMMA TypedStep ==
    ASSUME Typed, FlushedAreContent, [Next]_vars
    PROVE  Typed' /\ FlushedAreContent'
<1>1. ASSUME NEW w \in Workers, NEW r, Starts(w, r), WellFormed(r), ~r.flushed
      PROVE  Typed' /\ FlushedAreContent'
  BY <1>1 DEF Starts, Typed, FlushedAreContent, examVars, poolVars
<1>2. ASSUME NEW w \in Workers, Flush(w)
      PROVE  Typed' /\ FlushedAreContent'
  <2>1. item' = item /\ review' = review /\ req[w].op \in ContentOps
    BY <1>2 DEF Flush, poolVars
  <2> QED
    BY <1>2, <2>1, Flushing DEF Typed, FlushedAreContent
<1>3. ASSUME NEW w \in Workers, NEW rows, EndsDeleting(w, rows),
             item' = [q \in Questions |-> item'[q]],
             review' \in [Questions -> {"open", "approved", "deleted"}]
      PROVE  Typed' /\ FlushedAreContent'
  BY <1>3, Ending, IdleWellFormed DEF Typed, FlushedAreContent
<1>4. ASSUME NEW w \in Workers, CommitContent(w)
      PROVE  Typed' /\ FlushedAreContent'
  BY <1>3, <1>4 DEF CommitContent, Apply, Typed, poolVars
<1>5. ASSUME NEW w \in Workers, CommitReorder(w)
      PROVE  Typed' /\ FlushedAreContent'
  BY <1>3, <1>5 DEF CommitReorder, Apply, Typed, poolVars
<1>6. ASSUME NEW w \in Workers, CommitExam(w)
      PROVE  Typed' /\ FlushedAreContent'
  BY <1>3, <1>6 DEF CommitExam, Typed, poolVars
<1>7. ASSUME NEW w \in Workers, CommitDeleteExam(w)
      PROVE  Typed' /\ FlushedAreContent'
  BY <1>3, <1>7 DEF CommitDeleteExam, Typed, poolVars
<1>8. ASSUME NEW w \in Workers, CommitDeleteQuestion(w)
      PROVE  Typed' /\ FlushedAreContent'
  BY <1>3, <1>8 DEF CommitDeleteQuestion, Typed, poolVars
<1>9. ASSUME NEW w \in Workers, Rollback(w)
      PROVE  Typed' /\ FlushedAreContent'
  BY <1>9, IdleWellFormed DEF Rollback, Typed, FlushedAreContent, poolVars
<1>10. CASE Outside
  BY <1>10 DEF Outside, ReviewQuestion, ShelveQuestion, ImportSubmissions, Typed,
               FlushedAreContent, poolVars, vars
<1> QED
  BY <1>1, <1>2, <1>4, <1>5, <1>6, <1>7, <1>8, <1>9, <1>10, NextCases

-----------------------------------------------------------------------------
(***************************************************************************)
(* Any number of processes: rows of deleted questions                      *)
(***************************************************************************)

\* A row after a request's writes was inserted by it or was there before.
LEMMA AppliedRows ==
    ASSUME Typed, NEW w \in Workers, NEW q \in Questions,
           q \in Placed(Apply(item, req[w]))
    PROVE  q \in Inserted(req[w]) \/ q \in Placed(item)
<1>1. DOMAIN req[w].insert = Questions /\ DOMAIN item = Questions
  BY DEF Typed, WellFormed
<1> QED
  BY <1>1 DEF Apply, Placed, Inserted

LEMMA KeyStep ==
    ASSUME KeyInv, [Next]_vars
    PROVE  FlushedInsertsExist' /\ PlacedQuestionsExist'
<1> USE DEF KeyInv
<1>1. ASSUME NEW w \in Workers, NEW r, Starts(w, r), ~r.flushed
      PROVE  FlushedInsertsExist' /\ PlacedQuestionsExist'
  BY <1>1 DEF Starts, Typed, FlushedInsertsExist, PlacedQuestionsExist, Placed,
              Inserted, poolVars
<1>2. ASSUME NEW w \in Workers, Flush(w)
      PROVE  FlushedInsertsExist' /\ PlacedQuestionsExist'
  <2>1. item' = item /\ review' = review
    BY <1>2 DEF Flush, poolVars
  <2>2. \A q \in Inserted(req[w]) : review[q] # "deleted"
    BY <1>2 DEF Flush, Accepted, QuestionExists
  <2> QED
    BY <1>2, <2>1, <2>2, Flushing
       DEF FlushedInsertsExist, PlacedQuestionsExist, Placed, Inserted
<1>3. ASSUME NEW w \in Workers, NEW rows, EndsDeleting(w, rows), review' = review,
             \A q \in Questions : q \in Placed(item') =>
                 q \in Placed(item) \/ review[q] # "deleted",
             DOMAIN item' = Questions
      PROVE  FlushedInsertsExist' /\ PlacedQuestionsExist'
  <2>1. FlushedInsertsExist'
    BY <1>3, Ending, IdleWellFormed DEF FlushedInsertsExist, Inserted, Placed
  <2>2. PlacedQuestionsExist'
    BY <1>3 DEF PlacedQuestionsExist, Placed
  <2> QED
    BY <2>1, <2>2
<1>4. ASSUME NEW w \in Workers, CommitContent(w)
      PROVE  FlushedInsertsExist' /\ PlacedQuestionsExist'
  <2>1. \A q \in Questions : q \in Placed(item') =>
            q \in Placed(item) \/ review[q] # "deleted"
    BY <1>4, AppliedRows DEF CommitContent, FlushedInsertsExist
  <2>2. EndsDeleting(w, req[w].delete) /\ review' = review /\ DOMAIN item' = Questions
    BY <1>4 DEF CommitContent, Apply, poolVars
  <2> QED
    BY <1>3, <2>1, <2>2
<1>5. ASSUME NEW w \in Workers, CommitReorder(w)
      PROVE  FlushedInsertsExist' /\ PlacedQuestionsExist'
  <2>1. \A q \in Questions : q \in Placed(item') =>
            q \in Placed(item) \/ review[q] # "deleted"
    BY <1>5, AppliedRows DEF CommitReorder, Accepted, QuestionExists
  <2>2. EndsDeleting(w, {}) /\ review' = review /\ DOMAIN item' = Questions
    BY <1>5 DEF CommitReorder, Apply, poolVars
  <2> QED
    BY <1>3, <2>1, <2>2
<1>6. ASSUME NEW w \in Workers, CommitExam(w)
      PROVE  FlushedInsertsExist' /\ PlacedQuestionsExist'
  <2>1. EndsDeleting(w, {}) /\ review' = review /\ item' = item
    BY <1>6 DEF CommitExam, poolVars
  <2> QED
    BY <1>3, <2>1 DEF Typed
<1>7. ASSUME NEW w \in Workers, CommitDeleteExam(w)
      PROVE  FlushedInsertsExist' /\ PlacedQuestionsExist'
  <2>1. /\ EndsDeleting(w, Placed(item))
        /\ review' = review
        /\ item' = [q \in Questions |-> None]
    BY <1>7 DEF CommitDeleteExam, poolVars
  <2> QED
    BY <1>3, <2>1 DEF Placed
\* The lock: a flushed INSERT of the deleted question would have made the
\* DELETE wait.
<1>8. ASSUME NEW w \in Workers, CommitDeleteQuestion(w)
      PROVE  FlushedInsertsExist' /\ PlacedQuestionsExist'
  <2>1. /\ EndsDeleting(w, req[w].delete)
        /\ review' = [q \in Questions |->
               IF q \in req[w].delete THEN "deleted" ELSE review[q]]
        /\ item' = [q \in Questions |->
               IF q \in req[w].delete THEN None ELSE item[q]]
    BY <1>8 DEF CommitDeleteQuestion
  <2>2. PlacedQuestionsExist'
    BY <2>1 DEF PlacedQuestionsExist, Placed, Typed
  <2>3. ASSUME NEW v \in Workers, req'[v].flushed, NEW q \in Inserted(req'[v])
        PROVE  review'[q] # "deleted"
    <3>1. v # w
      BY <2>1, <2>3, Ending, IdleWellFormed
    <3>2. req[v].flushed /\ q \in Inserted(req[v]) /\ q \in Questions
      BY <2>1, <2>3, <3>1, Ending DEF Inserted, Placed, Typed, WellFormed
    <3>3. q \notin req[w].delete
      BY <1>8, <3>1, <3>2 DEF CommitDeleteQuestion, MustWait, Touched
    <3> QED
      BY <2>1, <3>2, <3>3 DEF FlushedInsertsExist
  <2> QED
    BY <2>2, <2>3 DEF FlushedInsertsExist
<1>9. ASSUME NEW w \in Workers, Rollback(w)
      PROVE  FlushedInsertsExist' /\ PlacedQuestionsExist'
  BY <1>9, IdleWellFormed DEF Rollback, Typed, FlushedInsertsExist,
     PlacedQuestionsExist, Placed, Inserted, poolVars
<1>10. CASE Outside
  BY <1>10 DEF Outside, ReviewQuestion, ShelveQuestion, ImportSubmissions, Typed,
     FlushedInsertsExist, PlacedQuestionsExist, Placed, Inserted, WellFormed,
     poolVars, vars
<1> QED
  BY <1>1, <1>2, <1>4, <1>5, <1>6, <1>7, <1>8, <1>9, <1>10, NextCases

\* Whatever requests add, delete and commit at once, on any number of
\* processes, the exam never has a row for a question that is gone.
THEOREM RowsHaveQuestions == Spec => []PlacedQuestionsExist
<1>1. Init => KeyInv
  BY TypedInit, IdleWellFormed
     DEF Init, KeyInv, FlushedInsertsExist, PlacedQuestionsExist, Placed
<1>2. KeyInv /\ [Next]_vars => KeyInv'
  BY TypedStep, KeyStep DEF KeyInv
<1>3. KeyInv => PlacedQuestionsExist
  BY DEF KeyInv
<1> QED
  BY <1>1, <1>2, <1>3, PTL DEF Spec

-----------------------------------------------------------------------------
(***************************************************************************)
(* One process: the checks of a request still hold when it commits         *)
(***************************************************************************)

LEMMA GuardStep ==
    ASSUME OneWorker, GuardInv, [Next]_vars
    PROVE  GuardsHold'
<1> USE DEF GuardInv
<1>1. ASSUME NEW w \in Workers, req'[w] = Idle
      PROVE  GuardsHold'
  BY <1>1, IdleWellFormed DEF OneWorker, GuardsHold, Guard, ContentOps
<1>2. ASSUME NEW w \in Workers, NEW r, Starts(w, r), Guard(r)
      PROVE  GuardsHold'
  BY <1>2 DEF Starts, Typed, OneWorker, GuardsHold, Guard, Placed, examVars, poolVars
<1>3. ASSUME NEW w \in Workers, Flush(w)
      PROVE  GuardsHold'
  <2>1. status' = status /\ item' = item /\ review' = review
    BY <1>3 DEF Flush, examVars, poolVars
  <2> QED
    BY <1>3, <2>1, Flushing DEF GuardsHold, Guard, Placed, SameWrites
<1>4. ASSUME NEW w \in Workers,
             \/ CommitContent(w) \/ CommitReorder(w) \/ CommitExam(w)
             \/ CommitDeleteExam(w) \/ CommitDeleteQuestion(w)
      PROVE  GuardsHold'
  <2>1. \E rows : EndsDeleting(w, rows)
    BY <1>4 DEF CommitContent, CommitReorder, CommitExam, CommitDeleteExam,
                CommitDeleteQuestion
  <2> QED
    BY <1>1, <2>1, Ending
<1>5. ASSUME NEW w \in Workers, Rollback(w)
      PROVE  GuardsHold'
  BY <1>1, <1>5 DEF Rollback, Typed
<1>6. CASE Outside
  <2>1. ASSUME NEW w \in Workers, NEW q \in Questions,
               ReviewQuestion(w, q) \/ ShelveQuestion(w, q)
        PROVE  GuardsHold'
    \* The only process is idle while it runs one of these.
    <3>1. \A v \in Workers : req'[v].op = "idle"
      BY <2>1 DEF ReviewQuestion, ShelveQuestion, Free, OneWorker
    <3> QED
      BY <3>1 DEF GuardsHold, Guard, ContentOps
  <2>2. CASE ImportSubmissions \/ UNCHANGED vars
    BY <2>2 DEF ImportSubmissions, GuardsHold, Guard, Placed, examVars, poolVars, vars
  <2> QED
    BY <1>6, <2>1, <2>2 DEF Outside
<1> QED
  BY <1>2, <1>3, <1>4, <1>5, <1>6, NextCases

LEMMA Guarded ==
    ASSUME OneWorker
    PROVE  Spec => []GuardInv
<1>1. Init => GuardInv
  BY TypedInit, IdleWellFormed DEF Init, GuardInv, GuardsHold, Guard, ContentOps
<1>2. GuardInv /\ [Next]_vars => GuardInv'
  BY TypedStep, GuardStep DEF GuardInv
<1> QED
  BY <1>1, <1>2, PTL DEF Spec

\* What one step of a guarded state may do.
Frozen == (status # "draft" /\ status' # "deleted") => (item' = item /\ total' = total)
AllApproved ==
    (status = "draft" /\ status' = "finalized")
        => /\ Placed(item) # {}
           /\ \A q \in Placed(item) : review[q] = "approved"
Kept == \A q \in Questions : item[q] # None => review'[q] # "deleted"

LEMMA GuardedStep ==
    ASSUME GuardInv, PlacedQuestionsExist, [Next]_vars
    PROVE  Frozen /\ AllApproved /\ Kept
<1> USE DEF GuardInv
<1>1. ASSUME item' = item, total' = total, status' = status, review' = review
      PROVE  Frozen /\ AllApproved /\ Kept
  BY <1>1 DEF Frozen, AllApproved, Kept, PlacedQuestionsExist, Placed, Typed
<1>2. ASSUME NEW w \in Workers, NEW r, Starts(w, r)
      PROVE  Frozen /\ AllApproved /\ Kept
  BY <1>1, <1>2 DEF Starts, examVars, poolVars
<1>3. ASSUME NEW w \in Workers, Flush(w) \/ Rollback(w)
      PROVE  Frozen /\ AllApproved /\ Kept
  BY <1>1, <1>3 DEF Flush, Rollback, examVars, poolVars
<1>4. ASSUME NEW w \in Workers, CommitContent(w) \/ CommitReorder(w)
      PROVE  Frozen /\ AllApproved /\ Kept
  <2>1. status = "draft" /\ status' = "draft" /\ review' = review
    BY <1>4 DEF CommitContent, CommitReorder, FlushedAreContent, GuardsHold, Guard,
                examVars, poolVars
  <2> QED
    BY <2>1 DEF Frozen, AllApproved, Kept, PlacedQuestionsExist, Placed, Typed
<1>5. ASSUME NEW w \in Workers, CommitExam(w)
      PROVE  Frozen /\ AllApproved /\ Kept
  <2>1. item' = item /\ total' = total /\ review' = review
    BY <1>5 DEF CommitExam, poolVars
  <2>2. status' = "finalized" /\ status = "draft" => req[w].op = "finalize"
    BY <1>5 DEF CommitExam
  <2> QED
    BY <2>1, <2>2 DEF Frozen, AllApproved, Kept, PlacedQuestionsExist, Placed, Typed,
                      GuardsHold, Guard
<1>6. ASSUME NEW w \in Workers, CommitDeleteExam(w)
      PROVE  Frozen /\ AllApproved /\ Kept
  BY <1>6 DEF CommitDeleteExam, Frozen, AllApproved, Kept, PlacedQuestionsExist,
              Placed, Typed, poolVars
\* The question is in no exam, so the cascade finds no row.
<1>7. ASSUME NEW w \in Workers, CommitDeleteQuestion(w)
      PROVE  Frozen /\ AllApproved /\ Kept
  <2>1. \A q \in req[w].delete : item[q] = None
    BY <1>7 DEF CommitDeleteQuestion, GuardsHold, Guard
  <2>2. item' = item /\ total' = total /\ status' = status
    BY <1>7, <2>1 DEF CommitDeleteQuestion, Typed, examVars
  <2>3. Kept
    BY <1>7, <2>1 DEF CommitDeleteQuestion, Kept, PlacedQuestionsExist, Placed, Typed
  <2> QED
    BY <2>2, <2>3 DEF Frozen, AllApproved
<1>8. CASE Outside
  <2>1. ASSUME NEW w \in Workers, NEW q \in Questions, ReviewQuestion(w, q)
        PROVE  Frozen /\ AllApproved /\ Kept
    BY <2>1 DEF ReviewQuestion, Frozen, AllApproved, Kept, PlacedQuestionsExist,
                Placed, Typed, examVars
  <2>2. CASE UNCHANGED vars \/ ImportSubmissions
             \/ \E w \in Workers, q \in Questions : ShelveQuestion(w, q)
    BY <1>1, <2>2 DEF ImportSubmissions, ShelveQuestion, examVars, poolVars, vars
  <2> QED
    BY <1>8, <2>1, <2>2 DEF Outside
<1> QED
  BY <1>2, <1>3, <1>4, <1>5, <1>6, <1>7, <1>8, NextCases

\* With one server process, an exam that is not a draft keeps its questions,
\* their positions, their points and their total.
THEOREM FinalizedExamsAreFrozen ==
    ASSUME OneWorker
    PROVE  Spec => FrozenUnlessDraft
<1>1. GuardInv /\ PlacedQuestionsExist /\ [Next]_vars => Frozen
  BY GuardedStep
<1> QED
  BY <1>1, Guarded, RowsHaveQuestions, PTL DEF Spec, FrozenUnlessDraft, Frozen

\* With one server process, finalize_exam lets only approved questions pass.
THEOREM FinalizedExamsAreApproved ==
    ASSUME OneWorker
    PROVE  Spec => FinalizedApproved
<1>1. GuardInv /\ PlacedQuestionsExist /\ [Next]_vars => AllApproved
  BY GuardedStep
<1> QED
  BY <1>1, Guarded, RowsHaveQuestions, PTL DEF Spec, FinalizedApproved, AllApproved

\* With one server process, no question of the exam is hard-deleted.
THEOREM UsedQuestionsAreKept ==
    ASSUME OneWorker
    PROVE  Spec => UsedQuestionsKept
<1>1. GuardInv /\ PlacedQuestionsExist /\ [Next]_vars => Kept
  BY GuardedStep
<1> QED
  BY <1>1, Guarded, RowsHaveQuestions, PTL DEF Spec, UsedQuestionsKept, Kept

\* With one server process, all three hold together.
THEOREM ExamsAreKept ==
    ASSUME OneWorker
    PROVE  Spec => ExamKept
BY FinalizedExamsAreFrozen, FinalizedExamsAreApproved, UsedQuestionsAreKept DEF ExamKept

-----------------------------------------------------------------------------
(***************************************************************************)
(* Any number of processes: positions                                      *)
(*                                                                         *)
(* What a request writes was computed from rows that may have changed      *)
(* since.  The unique index compares it with the committed rows when it is *)
(* flushed; from then on its own entries keep other requests away from the *)
(* positions it will take.                                                 *)
(***************************************************************************)

\* No position is given out beyond Limit; a reordering negates positions.
Limit == MaxPosition + Cardinality(Questions)
Places == (0 - Limit)..Limit
Row == [position : Places, points : Nat]

WritesTyped(r) ==
    /\ r.insert \in [Questions -> Row \cup {None}]
    /\ r.position \in [Questions -> Places \cup {None}]
    /\ r.points \in [Questions -> Nat \cup {None}]

RowsTyped ==
    /\ item \in [Questions -> Row \cup {None}]
    /\ \A w \in Workers : WritesTyped(req[w])

\* The rows a request has sent, as the index sees them before its DELETE.
Written(rows, r) == Apply(rows, [r EXCEPT !.delete = {}])

NewPositions(r) == {r.position[q] : q \in Moved(r)} \cup Positions(r.insert)

Apart(r, s) ==
    Touched(r) \cap Touched(s) = {} /\ NewPositions(r) \cap NewPositions(s) = {}

FlushedFit == \A w \in Workers : req[w].flushed => Distinct(Written(item, req[w]))
FlushedApart == \A v, w \in Workers :
    v # w /\ req[v].flushed /\ req[w].flushed => Apart(req[v], req[w])

PlaceInv == Typed /\ FlushedAreContent /\ RowsTyped
            /\ PositionsDistinct /\ FlushedFit /\ FlushedApart

LEMMA LimitTyped == Limit \in Nat /\ Cardinality(Questions) \in Nat
  BY ComposerAssumption, FS_CardinalityType DEF Limit

\* No row is None.
LEMMA RowIsNone ==
    /\ None \notin Row /\ None \notin Places /\ None \notin Nat
    /\ \A a \in Places, b \in Nat : [position |-> a, points |-> b] \in Row
<1>1. Places \subseteq Int
  BY LimitTyped DEF Places
<1>2. Row \subseteq Item
  BY <1>1 DEF Row, Item
<1>4. Nat \subseteq Int
  OBVIOUS
<1>3. \A a \in Places, b \in Nat : [position |-> a, points |-> b] \in Row
  BY DEF Row
<1>5. None \notin Item /\ None \notin Int
  BY ComposerAssumption
<1> HIDE DEF Row, Places
<1> QED
  BY <1>1, <1>2, <1>3, <1>4, <1>5

\* A set of integers with a bound has a largest member.
LEMMA LargestMember ==
    ASSUME NEW S, S \subseteq Int, S # {}, NEW L \in Int, \A x \in S : x <= L
    PROVE  Max(S) \in S /\ \A y \in S : Max(S) >= y
<1> DEFINE T == {L - x : x \in S}
           Less == {pair \in Nat \X Nat : pair[1] < pair[2]}
<1>1. IsWellFoundedOn(Less, Nat)
  BY NatLessThanWellFounded, Zenon DEF OpToRel
<1>2. T \subseteq Nat
  <2>1. \A x \in S : x \in Int /\ L - x \in Nat
    OBVIOUS
  <2> QED
    BY <2>1
<1>3. T # {}
  <2>1. PICK x : x \in S
    OBVIOUS
  <2>2. L - x \in T
    BY <2>1
  <2> QED
    BY <2>2
<1>4. PICK n \in T : \A m \in T : <<m, n>> \notin Less
  <2> HIDE DEF T, Less
  <2> QED
    BY <1>1, <1>2, <1>3, WFMin
<1>5. \A m \in T : n <= m
  <2>1. ASSUME NEW m \in T PROVE n <= m
    <3>1. m \in Nat /\ n \in Nat /\ <<m, n>> \notin Less
      BY <1>2, <1>4
    <3> QED
      BY <3>1
  <2> QED
    BY <2>1
<1>6. PICK x \in S : n = L - x
  BY <1>4
<1>7. \A y \in S : x >= y
  <2>1. ASSUME NEW y \in S PROVE x >= y
    <3>1. L - y \in T
      OBVIOUS
    <3>2. L - x <= L - y
      BY <1>5, <1>6, <3>1
    <3>3. x \in Int /\ y \in Int
      OBVIOUS
    <3> QED
      BY <3>2, <3>3
  <2> QED
    BY <2>1
<1> QED
  BY <1>6, <1>7 DEF Max

LEMMA LastPlace ==
    ASSUME item \in [Questions -> Row \cup {None}]
    PROVE  LastPosition \in Places
<1>1. CASE Placed(item) = {}
  BY <1>1, LimitTyped DEF LastPosition, Places
<1>2. CASE Placed(item) # {}
  <2>1. Positions(item) \subseteq Places /\ Positions(item) # {}
    BY <1>2 DEF Positions, Placed, Row
  <2>2. Places \subseteq Int /\ \A x \in Places : x <= Limit
    BY LimitTyped DEF Places
  <2>4. Positions(item) \subseteq Int /\ \A x \in Positions(item) : x <= Limit
    BY <2>1, <2>2
  <2>5. Limit \in Int
    BY LimitTyped
  <2>3. Max(Positions(item)) \in Positions(item)
    BY <2>1, <2>4, <2>5, LargestMember
  <2> QED
    BY <1>2, <2>1, <2>3 DEF LastPosition
<1> QED
  BY <1>1, <1>2

\* Rows that are appended are numbered within the limits.
LEMMA AppendedRows ==
    ASSUME item \in [Questions -> Row \cup {None}], NEW S \in SUBSET Questions, Room(S),
           NEW rows \in Appended(S)
    PROVE  rows \in [Questions -> Row \cup {None}]
<1>1. PICK rank \in Bijection(S, 1..Cardinality(S)) :
          rows = [q \in Questions |->
              IF q \in S THEN [position |-> LastPosition + rank[q], points |-> Suggested]
              ELSE None]
  BY DEF Appended
<1>2. rank \in [S -> 1..Cardinality(S)]
  BY <1>1 DEF Bijection, Injection, Surjection
<1>3. Cardinality(S) \in Nat
  BY ComposerAssumption, FS_Subset, FS_CardinalityType
<1>4. LastPosition \in Places
  BY LastPlace
<1>5. MaxPosition \in Nat /\ Limit \in Nat /\ MaxPosition <= Limit
  BY ComposerAssumption, LimitTyped DEF Limit
<1>6. ASSUME NEW q \in S PROVE LastPosition + rank[q] \in Places
  <2>1. rank[q] \in 1..Cardinality(S)
    BY <1>2
  <2>2. LastPosition + Cardinality(S) <= MaxPosition
    BY DEF Room
  <2> QED
    BY <1>3, <1>4, <1>5, <2>1, <2>2 DEF Places
<1>7. ASSUME NEW q \in S
      PROVE  [position |-> LastPosition + rank[q], points |-> Suggested] \in Row
  BY <1>6, ComposerAssumption, RowIsNone
<1> QED
  BY <1>1, <1>7

\* Every handler computes rows and positions within the limits.
LEMMA StartingTyped ==
    ASSUME Typed, RowsTyped, NEW w \in Workers,
           Compose(w) \/ Administer(w) \/ \E q \in Questions : DeleteQuestion(w, q)
    PROVE  WritesTyped(req'[w])
<1> DEFINE Given(r) == req' = [req EXCEPT ![w] = r]
<1>0. \A r : Given(r) => req'[w] = r
  BY DEF Typed
<1>1. WritesTyped(Idle)
  BY DEF WritesTyped, Idle, Nothing
<1>2. ASSUME NEW rows \in [Questions -> Row \cup {None}],
             Loads(w, [Idle EXCEPT !.op = "add", !.insert = rows])
      PROVE  WritesTyped(req'[w])
  <2>1. req'[w] = [Idle EXCEPT !.op = "add", !.insert = rows]
    BY <1>0, <1>2 DEF Loads
  <2> QED
    BY <2>1 DEF WritesTyped, Idle, Nothing
<1>3. ASSUME NEW S \in SUBSET Questions, AddQuestions(w, S) \/ AutoFill(w, S)
      PROVE  WritesTyped(req'[w])
  <2>1. PICK T \in SUBSET Questions : Room(T) /\ \E rows \in Appended(T) :
            Loads(w, [Idle EXCEPT !.op = "add", !.insert = rows])
    BY <1>3 DEF AddQuestions, AutoFill
  <2> QED
    BY <2>1, <1>2, AppendedRows DEF RowsTyped
<1>4. ASSUME NEW q \in Questions, NEW p \in Points, UpdateExamQuestion(w, q, p)
      PROVE  WritesTyped(req'[w])
  <2>1. req'[w] = [Idle EXCEPT !.op = "points",
                     !.points = IF item[q].points = p THEN Nothing
                                ELSE [Nothing EXCEPT ![q] = p]]
    BY <1>0, <1>4 DEF UpdateExamQuestion, Loads
  <2>2. p \in Nat
    BY ComposerAssumption
  <2> QED
    BY <2>1, <2>2 DEF WritesTyped, Idle, Nothing
<1>5. ASSUME NEW q \in Questions, RemoveExamQuestion(w, q)
      PROVE  WritesTyped(req'[w])
  <2> DEFINE moves == [x \in Questions |->
                         IF x \in Placed(item) \ {q} /\ Rank(x) # item[x].position
                         THEN Rank(x) ELSE None]
  <2>1. req'[w] = [Idle EXCEPT !.op = "remove", !.delete = {q}, !.position = moves]
    BY <1>0, <1>5 DEF RemoveExamQuestion, Loads
  <2>2. ASSUME NEW x \in Questions PROVE Rank(x) \in Places
    <3>1. {y \in Placed(item) : item[y].position <= item[x].position} \subseteq Questions
      BY DEF Placed, RowsTyped
    <3>2. Rank(x) \in Nat /\ Rank(x) <= Cardinality(Questions)
      BY <3>1, ComposerAssumption, FS_Subset, FS_CardinalityType DEF Rank
    <3> QED
      BY <3>2, LimitTyped, ComposerAssumption DEF Places, Limit
  <2>3. moves \in [Questions -> Places \cup {None}]
    BY <2>2
  <2> HIDE DEF moves
  <2> QED
    BY <2>1, <2>3 DEF WritesTyped, Idle, Nothing
<1>6. ASSUME NEW S \in SUBSET Questions, NEW order \in [S -> 1..MaxPosition],
             ReorderQuestions(w, order)
      PROVE  WritesTyped(req'[w])
  <2> DEFINE moves == [q \in Questions |->
                         IF q \in DOMAIN order THEN order[q]
                         ELSE IF q \in Placed(item) THEN 0 - item[q].position
                         ELSE None]
  <2>1. req'[w] = [Idle EXCEPT !.op = "reorder", !.position = moves]
    BY <1>0, <1>6 DEF ReorderQuestions, Loads
  <2>2. \A q \in S : order[q] \in Places
    BY LimitTyped, ComposerAssumption DEF Places, Limit
  <2>3. ASSUME NEW q \in Placed(item) PROVE 0 - item[q].position \in Places
    <3>1. item[q].position \in Places
      BY DEF RowsTyped, Placed, Row
    <3> QED
      BY <3>1, LimitTyped DEF Places
  <2>4. moves \in [Questions -> Places \cup {None}]
    BY <2>2, <2>3
  <2> HIDE DEF moves
  <2> QED
    BY <2>1, <2>4 DEF WritesTyped, Idle, Nothing
<1>7. ASSUME Administer(w) PROVE WritesTyped(req'[w])
  <2>1. PICK o \in {"finalize", "unfinalize", "export", "archive", "restore", "deleteExam"} :
            Loads(w, [Idle EXCEPT !.op = o])
    BY <1>7 DEF Administer, FinalizeExam, UnfinalizeExam, ExportExam, ArchiveExam,
                RestoreExam, DeleteExam
  <2>2. req'[w] = [Idle EXCEPT !.op = o]
    BY <1>0, <2>1 DEF Loads
  <2> QED
    BY <2>2 DEF WritesTyped, Idle, Nothing
<1>8. ASSUME NEW q \in Questions, DeleteQuestion(w, q) PROVE WritesTyped(req'[w])
  <2>1. req'[w] = [Idle EXCEPT !.op = "deleteQuestion", !.delete = {q}]
    BY <1>0, <1>8 DEF DeleteQuestion
  <2> QED
    BY <2>1 DEF WritesTyped, Idle, Nothing
<1> QED
  BY <1>3, <1>4, <1>5, <1>6, <1>7, <1>8 DEF Compose

\* The row of a question after the inserts and updates of r.
Revised(rows, r, q) ==
    [position |-> IF r.position[q] # None THEN r.position[q] ELSE rows[q].position,
     points |-> IF r.points[q] # None THEN r.points[q] ELSE rows[q].points]

LEMMA RevisedRow ==
    ASSUME NEW r, WritesTyped(r), NEW rows \in [Questions -> Row \cup {None}],
           NEW q \in Questions, rows[q] # None
    PROVE  /\ Revised(rows, r, q) \in Row
           /\ Revised(rows, r, q) # None
           /\ Revised(rows, r, q).position = IF r.position[q] # None THEN r.position[q]
                                             ELSE rows[q].position
<1>1. rows[q].position \in Places /\ rows[q].points \in Nat
  BY DEF Row
<1>2. /\ r.position[q] # None => r.position[q] \in Places
      /\ r.points[q] # None => r.points[q] \in Nat
  BY DEF WritesTyped
<1>3. Revised(rows, r, q) \in Row
  BY <1>1, <1>2 DEF Revised, Row
<1> QED
  BY <1>3, RowIsNone DEF Revised

LEMMA WrittenRow ==
    ASSUME NEW r, WellFormed(r), NEW rows, NEW q \in Questions
    PROVE  /\ r.insert[q] # None => Written(rows, r)[q] = r.insert[q]
           /\ r.insert[q] = None /\ rows[q] = None => Written(rows, r)[q] = None
           /\ r.insert[q] = None /\ rows[q] # None =>
                  Written(rows, r)[q] = Revised(rows, r, q)
<1>1. PICK s : s = [r EXCEPT !.delete = {}]
  OBVIOUS
<1>2. /\ s.insert = r.insert /\ s.position = r.position
      /\ s.points = r.points /\ s.delete = {}
  BY <1>1 DEF WellFormed
<1> QED
  BY <1>1, <1>2 DEF Written, Apply, Revised

\* The same with its DELETE.
LEMMA AppliedRow ==
    ASSUME NEW r, WellFormed(r), NEW rows, NEW q \in Questions
    PROVE  Apply(rows, r)[q] \in {None, Written(rows, r)[q]}
BY WrittenRow DEF Apply, Revised

LEMMA WrittenTyped ==
    ASSUME NEW r, WellFormed(r), WritesTyped(r),
           NEW rows \in [Questions -> Row \cup {None}]
    PROVE  /\ Written(rows, r) \in [Questions -> Row \cup {None}]
           /\ Apply(rows, r) \in [Questions -> Row \cup {None}]
<1>1. ASSUME NEW q \in Questions
      PROVE  Written(rows, r)[q] \in Row \cup {None}
  <2>1. r.insert[q] \in Row \cup {None}
    BY DEF WritesTyped
  <2> QED
    BY <2>1, RevisedRow, WrittenRow
<1>2. Written(rows, r) = [q \in Questions |-> Written(rows, r)[q]]
  BY DEF Written, Apply
<1>3. \A q \in Questions : Apply(rows, r)[q] \in {None, Written(rows, r)[q]}
  BY AppliedRow
<1>4. Apply(rows, r) = [q \in Questions |-> Apply(rows, r)[q]]
  BY DEF Apply
<1> QED
  BY <1>1, <1>2, <1>3, <1>4

\* What is deleted in addition collides with nothing.
LEMMA DeletingFits ==
    ASSUME NEW r, WellFormed(r), NEW rows, Distinct(Written(rows, r))
    PROVE  Distinct(Apply(rows, r))
<1>1. \A q \in Questions : Apply(rows, r)[q] \in {None, Written(rows, r)[q]}
  BY AppliedRow
<1>2. DOMAIN Apply(rows, r) = Questions /\ DOMAIN Written(rows, r) = Questions
  BY DEF Apply, Written
<1> QED
  BY <1>1, <1>2 DEF Distinct, Placed

\* Whoever takes rows away lets what another request has sent fit.
LEMMA FewerRowsFit ==
    ASSUME NEW r, WellFormed(r), NEW rows, NEW left, Distinct(Written(rows, r)),
           \A q \in Questions : left[q] \in {None, rows[q]}
    PROVE  Distinct(Written(left, r))
<1>1. ASSUME NEW q \in Questions
      PROVE  Written(left, r)[q] \in {None, Written(rows, r)[q]}
  <2>1. left[q] = rows[q] => Revised(left, r, q) = Revised(rows, r, q)
    BY DEF Revised
  <2>2. left[q] \in {None, rows[q]}
    OBVIOUS
  <2> QED
    BY <2>1, <2>2, WrittenRow
<1>2. DOMAIN Written(left, r) = Questions /\ DOMAIN Written(rows, r) = Questions
  BY DEF Apply, Written
<1> QED
  BY <1>1, <1>2 DEF Distinct, Placed

\* Two requests that each fit the committed rows and touch neither each other's
\* rows nor new positions fit one after the other.
LEMMA BothFit ==
    ASSUME NEW r, NEW s, NEW rows \in [Questions -> Row \cup {None}],
           WellFormed(r), WritesTyped(r), WellFormed(s), WritesTyped(s), Apart(r, s),
           Distinct(Written(rows, r)), Distinct(Written(rows, s))
    PROVE  Distinct(Written(Apply(rows, r), s))
<1> DEFINE mid == Apply(rows, r)
           end == Written(mid, s)
           alone == Written(rows, s)
           New(t) == {q \in Questions : t.insert[q] # None \/ t.position[q] # None}
<1>1. /\ mid \in [Questions -> Row \cup {None}]
      /\ end \in [Questions -> Row \cup {None}]
      /\ alone \in [Questions -> Row \cup {None}]
  <2>1. mid \in [Questions -> Row \cup {None}]
    BY WrittenTyped
  <2> HIDE DEF mid
  <2> QED
    BY <2>1, WrittenTyped
<1>2. \A q \in Questions : mid[q] \in {None, Written(rows, r)[q]}
  BY AppliedRow
<1>3. Distinct(mid)
  BY DeletingFits
<1>4. \A q \in New(s) : /\ s.insert[q] # None => s.insert[q].position \in NewPositions(s)
                        /\ s.position[q] # None => s.position[q] \in NewPositions(s)
  BY DEF NewPositions, Moved, Positions, Placed, WellFormed
<1>5. \A q \in New(r) : /\ r.insert[q] # None => r.insert[q].position \in NewPositions(r)
                        /\ r.position[q] # None => r.position[q] \in NewPositions(r)
  BY DEF NewPositions, Moved, Positions, Placed, WellFormed
<1>6. \A q \in New(s) : q \in Touched(s)
  BY DEF Touched, Inserted, Updated, Moved, Placed, WellFormed
<1>7. ASSUME NEW q \in Questions, q \notin Touched(r)
      PROVE  /\ mid[q] = None <=> rows[q] = None
             /\ rows[q] # None => /\ mid[q].position = rows[q].position
                                  /\ mid[q].points = rows[q].points
  <2>1. r.insert[q] = None /\ r.position[q] = None /\ r.points[q] = None /\ q \notin r.delete
    BY <1>7 DEF Touched, Inserted, Updated, Moved, Placed, WellFormed
  <2>2. mid[q] = IF rows[q] = None THEN None
                 ELSE [position |-> rows[q].position, points |-> rows[q].points]
    BY <2>1 DEF Apply
  <2>3. rows[q] # None => rows[q].position \in Places /\ rows[q].points \in Nat
    BY DEF Row
  <2> HIDE DEF mid
  <2> QED
    BY <2>2, <2>3, RowIsNone
<1> HIDE DEF mid
<1>a. ASSUME NEW q \in Questions
      PROVE  /\ s.insert[q] # None => end[q] = s.insert[q] /\ alone[q] = s.insert[q]
             /\ s.insert[q] = None /\ end[q] # None =>
                    /\ mid[q] # None
                    /\ end[q].position = IF s.position[q] # None THEN s.position[q]
                                         ELSE mid[q].position
             /\ s.insert[q] = None /\ rows[q] # None =>
                    /\ alone[q] # None
                    /\ alone[q].position = IF s.position[q] # None THEN s.position[q]
                                           ELSE rows[q].position
  <2>1. /\ s.insert[q] # None => end[q] = s.insert[q]
        /\ s.insert[q] = None /\ mid[q] = None => end[q] = None
        /\ s.insert[q] = None /\ mid[q] # None => end[q] = Revised(mid, s, q)
    BY WrittenRow
  <2>2. /\ s.insert[q] # None => alone[q] = s.insert[q]
        /\ s.insert[q] = None /\ rows[q] # None => alone[q] = Revised(rows, s, q)
    BY WrittenRow
  <2>3. mid[q] # None => Revised(mid, s, q).position =
            IF s.position[q] # None THEN s.position[q] ELSE mid[q].position
    BY <1>1, RevisedRow
  <2>4. rows[q] # None =>
            /\ Revised(rows, s, q) # None
            /\ Revised(rows, s, q).position =
                 IF s.position[q] # None THEN s.position[q] ELSE rows[q].position
    BY RevisedRow
  <2> HIDE DEF end, alone
  <2> QED
    BY <2>1, <2>2, <2>3, <2>4
<1>b. ASSUME NEW q \in Questions, mid[q] # None
      PROVE  /\ r.insert[q] # None => mid[q] = r.insert[q]
             /\ r.insert[q] = None =>
                    /\ rows[q] # None
                    /\ mid[q].position = IF r.position[q] # None THEN r.position[q]
                                         ELSE rows[q].position
  <2>1. mid[q] = Written(rows, r)[q]
    BY <1>2, <1>b
  <2>2. /\ r.insert[q] # None => Written(rows, r)[q] = r.insert[q]
        /\ r.insert[q] = None /\ rows[q] = None => Written(rows, r)[q] = None
        /\ r.insert[q] = None /\ rows[q] # None => Written(rows, r)[q] = Revised(rows, r, q)
    BY WrittenRow
  <2>3. rows[q] # None => Revised(rows, r, q).position =
            IF r.position[q] # None THEN r.position[q] ELSE rows[q].position
    BY RevisedRow
  <2> QED
    BY <1>b, <2>1, <2>2, <2>3
\* Placed by s.
<1>8. ASSUME NEW q \in New(s), end[q] # None
      PROVE  /\ end[q].position \in NewPositions(s)
             /\ alone[q] # None /\ alone[q].position = end[q].position
  <2>1. q \in Questions /\ q \notin Touched(r)
    BY <1>6 DEF Apart
  <2>2. s.insert[q] # None \/ s.position[q] # None
    OBVIOUS
  <2> HIDE DEF end, alone, New
  <2> QED
    BY <1>8, <2>1, <2>2, <1>a, <1>4, <1>7
\* Left where it was by s.
<1>9. ASSUME NEW q \in Questions \ New(s), end[q] # None
      PROVE  /\ mid[q] # None /\ end[q].position = mid[q].position
             /\ \/ mid[q].position \in NewPositions(r)
                \/ alone[q] # None /\ alone[q].position = end[q].position
  <2>1. s.insert[q] = None /\ s.position[q] = None
    OBVIOUS
  <2>2. r.insert[q] # None \/ r.position[q] # None => q \in New(r)
    OBVIOUS
  <2> HIDE DEF end, alone, New
  <2>3. mid[q] # None /\ end[q].position = mid[q].position
    BY <1>9, <2>1, <1>a
  <2> QED
    BY <2>1, <2>2, <2>3, <1>a, <1>b, <1>5
<1>10. ASSUME NEW p \in Questions, NEW q \in Questions, p # q,
              end[p] # None, end[q] # None
       PROVE  end[p].position # end[q].position
  <2>1. \A x, y \in Questions : x # y /\ alone[x] # None /\ alone[y] # None =>
            alone[x].position # alone[y].position
    BY <1>1 DEF Distinct, Placed
  <2>2. \A x, y \in Questions : x # y /\ mid[x] # None /\ mid[y] # None =>
            mid[x].position # mid[y].position
    BY <1>1, <1>3 DEF Distinct, Placed
  <2>3. NewPositions(r) \cap NewPositions(s) = {}
    BY DEF Apart
  <2>4. New(s) \subseteq Questions
    OBVIOUS
  <2> HIDE DEF end, alone, New
  <2>5. CASE p \in New(s) /\ q \in New(s)
    BY <1>8, <1>10, <2>1, <2>5
  <2>6. CASE p \in New(s) /\ q \notin New(s)
    BY <1>8, <1>9, <1>10, <2>1, <2>3, <2>6
  <2>7. CASE p \notin New(s) /\ q \in New(s)
    BY <1>8, <1>9, <1>10, <2>1, <2>3, <2>7
  <2>8. CASE p \notin New(s) /\ q \notin New(s)
    BY <1>9, <1>10, <2>2, <2>8
  <2> QED
    BY <2>5, <2>6, <2>7, <2>8
<1>11. DOMAIN end = Questions
  BY <1>1
<1>12. Distinct(end)
  <2> HIDE DEF end
  <2> QED
    BY <1>10, <1>11 DEF Distinct, Placed
<1> QED
  BY <1>12 DEF mid

\* Requests that differ in "gone" and "flushed" only write the same.
LEMMA SameSent ==
    ASSUME NEW r, NEW s, WellFormed(r), WellFormed(s), SameWrites(r, s)
    PROVE  /\ \A rows : Written(rows, r) = Written(rows, s)
           /\ Touched(r) = Touched(s) /\ NewPositions(r) = NewPositions(s)
           /\ WritesTyped(s) => WritesTyped(r)
<1>1. \A rows : Written(rows, r) = Written(rows, s)
  <2>1. PICK x : x = [r EXCEPT !.delete = {}]
    OBVIOUS
  <2>2. PICK y : y = [s EXCEPT !.delete = {}]
    OBVIOUS
  <2>3. /\ x.insert = y.insert /\ x.position = y.position /\ x.points = y.points
        /\ x.delete = {} /\ y.delete = {}
    BY <2>1, <2>2 DEF WellFormed, SameWrites
  <2>4. \A rows : Apply(rows, x) = Apply(rows, y)
    BY <2>3 DEF Apply
  <2> QED
    BY <2>1, <2>2, <2>4 DEF Written
<1>2. Touched(r) = Touched(s) /\ NewPositions(r) = NewPositions(s)
  BY DEF Touched, Inserted, Updated, Moved, NewPositions, SameWrites
<1>3. WritesTyped(s) => WritesTyped(r)
  BY DEF WritesTyped, SameWrites
<1> QED
  BY <1>1, <1>2, <1>3

\* Whoever did not have to wait keeps apart from what has been sent.
LEMMA WaitingKeepsApart ==
    ASSUME NEW w \in Workers, ~MustWait(w), NEW v \in Workers \ {w}, req[v].flushed
    PROVE  Apart(req[w], req[v]) /\ Apart(req[v], req[w])
<1>1. /\ Touched(req[v]) \cap Touched(req[w]) = {}
      /\ Entries(req[v]) \cap Entries(req[w]) = {}
  BY DEF MustWait
<1>2. \A r : NewPositions(r) \subseteq Entries(r)
  BY DEF NewPositions, Entries
<1> QED
  BY <1>1, <1>2 DEF Apart

LEMMA PlaceStep ==
    ASSUME PlaceInv, [Next]_vars
    PROVE  RowsTyped' /\ PositionsDistinct' /\ FlushedFit' /\ FlushedApart'
<1> USE DEF PlaceInv
<1>a. Distinct(item) /\ (PositionsDistinct' <=> Distinct(item'))
  BY DEF Distinct, PositionsDistinct, Placed
<1>b. WritesTyped(Idle)
  BY DEF WritesTyped, Idle, Nothing
<1>c. \A w \in Workers : WellFormed(req[w]) /\ WritesTyped(req[w])
  BY DEF Typed, RowsTyped
<1>1. ASSUME NEW w \in Workers, NEW r, Starts(w, r), ~r.flushed, WritesTyped(r)
      PROVE  RowsTyped' /\ PositionsDistinct' /\ FlushedFit' /\ FlushedApart'
  <2>1. item' = item /\ req'[w] = r /\ \A v \in Workers \ {w} : req'[v] = req[v]
    BY <1>1 DEF Starts, Typed
  <2> QED
    BY <1>1, <1>a, <2>1 DEF RowsTyped, FlushedFit, FlushedApart
<1>2. ASSUME NEW w \in Workers, Flush(w)
      PROVE  RowsTyped' /\ PositionsDistinct' /\ FlushedFit' /\ FlushedApart'
  <2>1. item' = item
    BY <1>2 DEF Flush
  <2>2. \A v \in Workers : WellFormed(req'[v]) /\ SameWrites(req'[v], req[v])
    BY <1>2, Flushing
  <2>3. \A v \in Workers : /\ \A rows : Written(rows, req'[v]) = Written(rows, req[v])
                           /\ Touched(req'[v]) = Touched(req[v])
                           /\ NewPositions(req'[v]) = NewPositions(req[v])
                           /\ WritesTyped(req'[v])
    BY <1>c, <2>2, SameSent
  <2>4. \A v \in Workers \ {w} : req'[v] = req[v]
    BY <1>2, Flushing
  <2>5. Distinct(Written(item, req[w])) /\ ~MustWait(w)
    BY <1>2 DEF Flush, Accepted, Written
  <2>6. FlushedFit'
    BY <2>1, <2>3, <2>4, <2>5 DEF FlushedFit
  <2>7. ASSUME NEW v \in Workers, NEW u \in Workers, v # u, req'[v].flushed, req'[u].flushed
        PROVE  Apart(req[v], req[u])
    <3>1. CASE v = w
      BY <2>4, <2>5, <2>7, <3>1, WaitingKeepsApart
    <3>2. CASE u = w
      BY <2>4, <2>5, <2>7, <3>2, WaitingKeepsApart
    <3>3. CASE v # w /\ u # w
      BY <2>4, <2>7, <3>3 DEF FlushedApart
    <3> QED
      BY <3>1, <3>2, <3>3
  <2>8. FlushedApart'
    BY <2>3, <2>7 DEF FlushedApart, Apart
  <2> QED
    BY <1>a, <2>1, <2>3, <2>6, <2>8 DEF RowsTyped
<1>3. ASSUME NEW w \in Workers, NEW rows, EndsDeleting(w, rows),
             item' \in [Questions -> Row \cup {None}], Distinct(item'),
             \A v \in Workers \ {w} :
                 req[v].flushed => Distinct(Written(item', req[v]))
      PROVE  RowsTyped' /\ PositionsDistinct' /\ FlushedFit' /\ FlushedApart'
  <2>1. /\ \A v \in Workers : WellFormed(req'[v])
        /\ req'[w] = Idle
        /\ \A v \in Workers \ {w} :
              req'[v].flushed = req[v].flushed /\ SameWrites(req'[v], req[v])
    BY <1>3, Ending
  <2>2. \A v \in Workers \ {w} :
            /\ \A x : Written(x, req'[v]) = Written(x, req[v])
            /\ Touched(req'[v]) = Touched(req[v])
            /\ NewPositions(req'[v]) = NewPositions(req[v])
            /\ WritesTyped(req'[v])
    BY <1>c, <2>1, SameSent
  <2>3. ~req'[w].flushed /\ WritesTyped(req'[w])
    BY <1>b, <2>1, IdleWellFormed
  <2>4. RowsTyped'
    BY <1>3, <2>2, <2>3 DEF RowsTyped
  <2>5. FlushedFit'
    BY <1>3, <2>1, <2>2, <2>3 DEF FlushedFit
  <2>6. FlushedApart'
    BY <2>1, <2>2, <2>3 DEF FlushedApart, Apart
  <2> QED
    BY <1>3, <1>a, <2>4, <2>5, <2>6
<1>4. ASSUME NEW w \in Workers, CommitContent(w) \/ CommitReorder(w)
      PROVE  RowsTyped' /\ PositionsDistinct' /\ FlushedFit' /\ FlushedApart'
  <2>1. item' = Apply(item, req[w]) /\ \E rows : EndsDeleting(w, rows)
    BY <1>4 DEF CommitContent, CommitReorder
  <2>2. Distinct(Written(item, req[w]))
    BY <1>4 DEF CommitContent, CommitReorder, FlushedFit, Accepted, Written
  <2>3. \A v \in Workers \ {w} : req[v].flushed => Apart(req[w], req[v])
    BY <1>4, WaitingKeepsApart DEF CommitContent, CommitReorder, FlushedApart
  <2>4. item' \in [Questions -> Row \cup {None}]
    BY <1>c, <2>1, WrittenTyped DEF RowsTyped
  <2>5. Distinct(item')
    BY <1>c, <2>1, <2>2, DeletingFits
  <2>6. ASSUME NEW v \in Workers \ {w}, req[v].flushed
        PROVE  Distinct(Written(item', req[v]))
    <3>1. Distinct(Written(item, req[v])) /\ Apart(req[w], req[v])
      BY <2>3, <2>6 DEF FlushedFit
    <3> QED
      BY <1>c, <2>1, <2>2, <3>1, BothFit DEF RowsTyped
  <2> QED
    BY <1>3, <2>1, <2>4, <2>5, <2>6
<1>5. ASSUME NEW w \in Workers, CommitExam(w)
      PROVE  RowsTyped' /\ PositionsDistinct' /\ FlushedFit' /\ FlushedApart'
  <2>1. item' = item /\ EndsDeleting(w, {})
    BY <1>5 DEF CommitExam
  <2> QED
    BY <1>3, <1>a, <2>1 DEF RowsTyped, FlushedFit
<1>6. ASSUME NEW w \in Workers, CommitDeleteExam(w) \/ CommitDeleteQuestion(w)
      PROVE  RowsTyped' /\ PositionsDistinct' /\ FlushedFit' /\ FlushedApart'
  <2>1. \E rows : EndsDeleting(w, rows)
    BY <1>6 DEF CommitDeleteExam, CommitDeleteQuestion
  <2>2. /\ item' = [q \in Questions |-> item'[q]]
        /\ \A q \in Questions : item'[q] \in {None, item[q]}
    BY <1>6 DEF CommitDeleteExam, CommitDeleteQuestion
  <2>3. item' \in [Questions -> Row \cup {None}]
    BY <2>2 DEF RowsTyped
  <2>4. Distinct(item')
    BY <1>a, <2>2 DEF Distinct, Placed, RowsTyped
  <2>5. \A v \in Workers \ {w} : req[v].flushed => Distinct(Written(item', req[v]))
    BY <1>c, <2>2, FewerRowsFit DEF FlushedFit
  <2> QED
    BY <1>3, <2>1, <2>3, <2>4, <2>5
<1>7. ASSUME NEW w \in Workers, Rollback(w)
      PROVE  RowsTyped' /\ PositionsDistinct' /\ FlushedFit' /\ FlushedApart'
  <2>1. item' = item /\ req'[w] = Idle /\ \A v \in Workers \ {w} : req'[v] = req[v]
    BY <1>7 DEF Rollback, Typed
  <2> QED
    BY <1>a, <1>b, <2>1, IdleWellFormed DEF RowsTyped, FlushedFit, FlushedApart
<1>8. CASE Outside
  <2>1. item' = item /\ req' = req
    BY <1>8 DEF Outside, ReviewQuestion, ShelveQuestion, ImportSubmissions, vars
  <2> QED
    BY <1>a, <2>1 DEF RowsTyped, FlushedFit, FlushedApart
<1>9. ASSUME NEW w \in Workers,
             Compose(w) \/ Administer(w) \/ \E q \in Questions : DeleteQuestion(w, q)
      PROVE  RowsTyped' /\ PositionsDistinct' /\ FlushedFit' /\ FlushedApart'
  <2>1. PICK r : Starts(w, r) /\ ~r.flushed
    BY <1>9, Starting
  <2>2. req'[w] = r
    BY <2>1 DEF Starts, Typed
  <2>3. WritesTyped(r)
    BY <1>9, <2>2, StartingTyped
  <2> QED
    BY <1>1, <2>1, <2>3
<1> QED
  BY <1>2, <1>4, <1>5, <1>6, <1>7, <1>8, <1>9 DEF Next, Ends, Review, Outside

\* Whatever requests were computed from, on any number of processes, no two
\* questions of the exam share a position.
THEOREM PositionsStayDistinct == Spec => []PositionsDistinct
<1>1. Init => PlaceInv
  <2> SUFFICES ASSUME Init PROVE PlaceInv
    OBVIOUS
  <2>1. WritesTyped(Idle)
    BY DEF WritesTyped, Idle, Nothing
  <2> QED
    BY <2>1, TypedInit, IdleWellFormed
       DEF Init, PlaceInv, RowsTyped, PositionsDistinct, Placed, FlushedFit, FlushedApart
<1>2. PlaceInv /\ [Next]_vars => PlaceInv'
  BY TypedStep, PlaceStep DEF PlaceInv
<1>3. PlaceInv => PositionsDistinct
  BY DEF PlaceInv
<1> QED
  BY <1>1, <1>2, <1>3, PTL DEF Spec

-----------------------------------------------------------------------------
(***************************************************************************)
(* One process: the total                                                  *)
(***************************************************************************)

PointsOf(rows) == [q \in Placed(rows) |-> rows[q].points]

PointsAddUp(g, rows) ==
    g = [s \in SUBSET Placed(rows) |->
            IF s = {} THEN 0 ELSE rows[Taken(s)].points + g[s \ {Taken(s)}]]

LEMMA PointsUnfold ==
    ASSUME NEW rows
    PROVE  SumOfPoints(rows) = (CHOOSE g : PointsAddUp(g, rows))[Placed(rows)]
  BY DEF SumOfPoints, MapThenSumSet, MapThenFoldSet, PointsAddUp, Taken

LEMMA PointsAreSum ==
    ASSUME NEW rows, IsFiniteSet(Placed(rows))
    PROVE  SumOfPoints(rows) = SumOver(PointsOf(rows), Placed(rows))
<1> DEFINE S == Placed(rows)
           w == PointsOf(rows)
<1>1. ASSUME NEW s \in SUBSET S, s # {}
      PROVE  w[Taken(s)] = rows[Taken(s)].points
  BY <1>1, TakenIsIn DEF PointsOf
<1>2. ASSUME NEW g PROVE PointsAddUp(g, rows) <=> AddsUp(g, w, S)
  <2> HIDE DEF w
  <2>1. [s \in SUBSET S |->
            IF s = {} THEN 0 ELSE rows[Taken(s)].points + g[s \ {Taken(s)}]]
        = [s \in SUBSET S |->
            IF s = {} THEN 0 ELSE w[Taken(s)] + g[s \ {Taken(s)}]]
    BY <1>1
  <2> QED
    BY <2>1 DEF PointsAddUp, AddsUp
<1>3. \E g : PointsAddUp(g, rows)
  BY <1>2, AddsUpExists
<1> DEFINE f == CHOOSE g : PointsAddUp(g, rows)
<1>4. PointsAddUp(f, rows)
  BY <1>3, Zenon
<1>5. SumOfPoints(rows) = f[S]
  BY PointsUnfold
<1> HIDE DEF f, w, S
<1>6. AddsUp(f, w, S)
  BY <1>2, <1>4
<1>7. IsFiniteSet(S)
  BY DEF S
<1>8. SumOver(w, S) = f[S]
  BY <1>6, <1>7, SumIs
<1> QED
  BY <1>5, <1>8 DEF S, w

LEMMA PlacedFinite ==
    ASSUME NEW rows \in [Questions -> Row \cup {None}]
    PROVE  Placed(rows) \subseteq Questions /\ IsFiniteSet(Placed(rows))
  BY ComposerAssumption, FS_Subset DEF Placed

\* The sum of an exam's points is a number, and None is not.
LEMMA TotalIsNumber ==
    ASSUME NEW rows \in [Questions -> Row \cup {None}]
    PROVE  SumOfPoints(rows) \in Nat /\ SumOfPoints(rows) # None
<1>1. \A q \in Placed(rows) : PointsOf(rows)[q] \in Nat
  BY DEF PointsOf, Placed, Row
<1>2. SumOver(PointsOf(rows), Placed(rows)) \in Nat
  BY <1>1, PlacedFinite, SumIsNatural
<1> QED
  BY <1>2, PlacedFinite, PointsAreSum, RowIsNone

\* Rows that differ in their positions only have the same sum.
LEMMA SamePoints ==
    ASSUME NEW rows \in [Questions -> Row \cup {None}],
           NEW moved \in [Questions -> Row \cup {None}],
           Placed(moved) = Placed(rows),
           \A q \in Placed(rows) : moved[q].points = rows[q].points
    PROVE  SumOfPoints(moved) = SumOfPoints(rows)
<1>1. \A q \in Placed(rows) : PointsOf(moved)[q] = PointsOf(rows)[q]
  BY DEF PointsOf
<1>2. SumOver(PointsOf(moved), Placed(rows)) = SumOver(PointsOf(rows), Placed(rows))
  BY <1>1, PlacedFinite, SumSame
<1> QED
  BY <1>2, PlacedFinite, PointsAreSum

\* What a flushed request will write as total is the sum it will leave.
FlushedTotals ==
    \A w \in Workers : req[w].flushed =>
        SumOfPoints(Apply(item, req[w])) =
            (IF req[w].total = None THEN total ELSE req[w].total)

TotalInv == GuardInv /\ PlaceInv /\ TotalIsSum /\ FlushedTotals

LEMMA ReorderingKeepsPoints ==
    ASSUME RowsTyped, NEW w \in Workers, WellFormed(req[w]), Guard(req[w]),
           req[w].op = "reorder"
    PROVE  SumOfPoints(Apply(item, req[w])) = SumOfPoints(item)
<1> DEFINE new == Apply(item, req[w])
<1>1. /\ req[w].delete = {}
      /\ \A q \in Questions : req[w].insert[q] = None /\ req[w].points[q] = None
  BY DEF Guard, Nothing
<1>2. WritesTyped(req[w]) /\ item \in [Questions -> Row \cup {None}]
  BY DEF RowsTyped
<1>3. new \in [Questions -> Row \cup {None}]
  BY <1>2, WrittenTyped
<1>4. ASSUME NEW q \in Questions
      PROVE  /\ item[q] = None => new[q] = None
             /\ item[q] # None => new[q] # None /\ new[q].points = item[q].points
  <2>1. item[q] = None => new[q] = None
    BY <1>1 DEF Apply
  <2>2. item[q] # None => new[q] = Revised(item, req[w], q)
    BY <1>1 DEF Apply, Revised
  <2>3. item[q] # None => Revised(item, req[w], q) # None
    BY <1>2, RevisedRow
  <2>4. Revised(item, req[w], q).points = item[q].points
    BY <1>1 DEF Revised
  <2> QED
    BY <2>1, <2>2, <2>3, <2>4
<1> HIDE DEF new
<1>5. Placed(new) = Placed(item)
  BY <1>2, <1>3, <1>4 DEF Placed
<1>6. \A q \in Placed(item) : new[q].points = item[q].points
  BY <1>2, <1>4 DEF Placed
<1>7. SumOfPoints(new) = SumOfPoints(item)
  BY <1>2, <1>3, <1>5, <1>6, SamePoints
<1> QED
  BY <1>7 DEF new

LEMMA TotalStep ==
    ASSUME OneWorker, TotalInv, [Next]_vars
    PROVE  TotalIsSum' /\ FlushedTotals'
<1> USE DEF TotalInv
<1>1. ASSUME status = "deleted" => status' = "deleted", item' = item, total' = total
      PROVE  TotalIsSum'
  BY <1>1 DEF TotalIsSum
<1>2. ASSUME NEW w \in Workers, ~req'[w].flushed
      PROVE  FlushedTotals'
  BY <1>2 DEF FlushedTotals, OneWorker
<1>3. ASSUME NEW w \in Workers, NEW r, Starts(w, r), ~r.flushed
      PROVE  TotalIsSum' /\ FlushedTotals'
  <2>1. req'[w] = r /\ item' = item /\ total' = total /\ status' = status
    BY <1>3 DEF Starts, GuardInv, Typed, examVars
  <2> QED
    BY <1>1, <1>2, <1>3, <2>1
<1>4. ASSUME NEW w \in Workers, Flush(w)
      PROVE  TotalIsSum' /\ FlushedTotals'
  <2>1. item' = item /\ total' = total /\ status' = status
    BY <1>4 DEF Flush, examVars
  <2>2. PICK sum : sum = SumOfPoints(Apply(item, req[w]))
    OBVIOUS
  <2>3. req' = [req EXCEPT ![w] = [@ EXCEPT !.flushed = TRUE,
                   !.total = IF sum = total THEN None ELSE sum]]
    BY <1>4, <2>2 DEF Flush, FlushRecalculates
  <2>4. WellFormed(req[w]) /\ WritesTyped(req[w]) /\ item \in [Questions -> Row \cup {None}]
    BY DEF PlaceInv, Typed, RowsTyped
  <2>5. Apply(item, req[w]) \in [Questions -> Row \cup {None}]
    BY <2>4, WrittenTyped
  <2>6. sum # None
    BY <2>2, <2>5, TotalIsNumber
  <2>7. req'[w] = [req[w] EXCEPT !.flushed = TRUE,
                      !.total = IF sum = total THEN None ELSE sum]
    BY <2>3 DEF GuardInv, Typed
  <2>8. PICK r : r = req'[w]
    OBVIOUS
  <2>9. /\ r.insert = req[w].insert /\ r.position = req[w].position
        /\ r.points = req[w].points /\ r.delete = req[w].delete /\ r.gone = req[w].gone
        /\ r.total = IF sum = total THEN None ELSE sum
    BY <2>4, <2>7, <2>8 DEF WellFormed
  <2>10. Apply(item, r) = Apply(item, req[w])
    BY <2>9 DEF Apply
  <2>11. SumOfPoints(Apply(item, r)) = IF r.total = None THEN total ELSE r.total
    BY <2>2, <2>6, <2>9, <2>10
  <2>12. FlushedTotals'
    BY <2>1, <2>8, <2>11 DEF FlushedTotals, OneWorker
  <2> QED
    BY <1>1, <2>1, <2>12
<1>5. ASSUME NEW w \in Workers, NEW rows, EndsDeleting(w, rows)
      PROVE  FlushedTotals'
  <2>1. req'[w] = Idle
    BY <1>5, Ending DEF GuardInv
  <2> QED
    BY <1>2, <2>1, IdleWellFormed
<1>6. ASSUME NEW w \in Workers, CommitContent(w)
      PROVE  TotalIsSum' /\ FlushedTotals'
  <2>1. /\ item' = Apply(item, req[w]) /\ req[w].flushed
        /\ total' = IF req[w].total = None THEN total ELSE req[w].total
    BY <1>6 DEF CommitContent
  <2>2. SumOfPoints(Apply(item, req[w])) = total'
    BY <2>1 DEF FlushedTotals
  <2>3. TotalIsSum'
    BY <2>1, <2>2 DEF TotalIsSum
  <2> QED
    BY <1>5, <1>6, <2>3 DEF CommitContent
<1>7. ASSUME NEW w \in Workers, CommitReorder(w)
      PROVE  TotalIsSum' /\ FlushedTotals'
  <2>1. /\ item' = Apply(item, req[w]) /\ req[w].op = "reorder"
        /\ total' = total /\ status' = status
    BY <1>7 DEF CommitReorder, examVars
  <2>2. SumOfPoints(Apply(item, req[w])) = SumOfPoints(item)
    BY <2>1, ReorderingKeepsPoints DEF GuardInv, GuardsHold, PlaceInv, Typed
  <2>3. TotalIsSum'
    BY <2>1, <2>2 DEF TotalIsSum
  <2> QED
    BY <1>5, <1>7, <2>3 DEF CommitReorder
<1>8. ASSUME NEW w \in Workers, CommitExam(w)
      PROVE  TotalIsSum' /\ FlushedTotals'
  <2>1. item' = item /\ total' = total /\ status # "deleted" /\ status' # "deleted"
    BY <1>8 DEF CommitExam
  <2> QED
    BY <1>1, <1>5, <1>8, <2>1 DEF CommitExam
<1>9. ASSUME NEW w \in Workers, CommitDeleteExam(w)
      PROVE  TotalIsSum' /\ FlushedTotals'
  <2>1. status' = "deleted"
    BY <1>9 DEF CommitDeleteExam
  <2> QED
    BY <1>5, <1>9, <2>1 DEF CommitDeleteExam, TotalIsSum
\* The question is in no exam, so the cascade finds no row.
<1>10. ASSUME NEW w \in Workers, CommitDeleteQuestion(w)
       PROVE  TotalIsSum' /\ FlushedTotals'
  <2>1. \A q \in req[w].delete : item[q] = None
    BY <1>10 DEF CommitDeleteQuestion, GuardInv, GuardsHold, Guard
  <2>2. item' = item /\ total' = total /\ status' = status
    BY <1>10, <2>1 DEF CommitDeleteQuestion, GuardInv, Typed, examVars
  <2> QED
    BY <1>1, <1>5, <1>10, <2>2 DEF CommitDeleteQuestion
<1>11. ASSUME NEW w \in Workers, Rollback(w)
       PROVE  TotalIsSum' /\ FlushedTotals'
  <2>1. item' = item /\ total' = total /\ status' = status /\ req'[w] = Idle
    BY <1>11 DEF Rollback, GuardInv, Typed, examVars
  <2> QED
    BY <1>1, <1>2, <2>1, IdleWellFormed
<1>12. CASE Outside
  <2>1. item' = item /\ total' = total /\ status' = status /\ req' = req
    BY <1>12 DEF Outside, ReviewQuestion, ShelveQuestion, ImportSubmissions, vars, examVars
  <2>2. FlushedTotals'
    BY <2>1 DEF FlushedTotals
  <2> QED
    BY <1>1, <2>1, <2>2
<1> QED
  BY <1>3, <1>4, <1>6, <1>7, <1>8, <1>9, <1>10, <1>11, <1>12, NextCases

\* With one server process, total_points is the sum of the points of the
\* exam's rows after every commit, whatever the requests were.
THEOREM TotalsAddUp ==
    ASSUME OneWorker
    PROVE  Spec => []TotalIsSum
<1>1. Init => TotalInv
  <2> SUFFICES ASSUME Init PROVE TotalInv
    OBVIOUS
  <2>1. WritesTyped(Idle)
    BY DEF WritesTyped, Idle, Nothing
  <2>2. GuardInv
    BY TypedInit, IdleWellFormed DEF Init, GuardInv, GuardsHold, Guard, ContentOps
  <2>3. PlaceInv
    BY <2>1, TypedInit, IdleWellFormed
       DEF Init, PlaceInv, RowsTyped, PositionsDistinct, Placed, FlushedFit, FlushedApart
  <2>4. item \in [Questions -> Row \cup {None}] /\ Placed(item) = {} /\ total = 0
    BY DEF Init, Placed
  <2>5. SumOfPoints(item) = 0
    BY <2>4, PlacedFinite, PointsAreSum, SumOfNone
  <2>6. FlushedTotals
    BY IdleWellFormed DEF Init, FlushedTotals
  <2> QED
    BY <2>2, <2>3, <2>4, <2>5, <2>6 DEF TotalInv, TotalIsSum
<1>2. TotalInv /\ [Next]_vars => TotalInv'
  BY TypedStep, GuardStep, PlaceStep, TotalStep DEF TotalInv, GuardInv, PlaceInv
<1>3. TotalInv => TotalIsSum
  BY DEF TotalInv
<1> QED
  BY <1>1, <1>2, <1>3, PTL DEF Spec

-----------------------------------------------------------------------------
\* Automatic composition.  What holds after every choice: the chosen questions
\* are candidates, none is chosen twice, the sums stay within the budgets, and
\* when the choice has ended, it still has the reason it ended for.
ComposeTypes ==
    /\ goal \in Goals
    /\ DOMAIN pool \subseteq Nat /\ IsFiniteSet(DOMAIN pool)
    /\ \A i \in DOMAIN pool : pool[i] \in CandidateRecords
    /\ chosen \in Seq(DOMAIN pool) /\ done \in BOOLEAN

NoneTwice == IsFiniteSet(Chosen) /\ Cardinality(Chosen) = Len(chosen)

WithinBudget ==
    /\ Len(chosen) <= MaxQuestions
    /\ goal.points # Missing => RunningPoints <= goal.points
    /\ goal.minutes # Missing => RunningMinutes <= goal.minutes

EndsForAReason == done => Stop

ComposeIInv == ComposeTypes /\ NoneTwice /\ WithinBudget /\ EndsForAReason

\* The sums of the chosen questions are sums of natural numbers.
LEMMA RunningIsNatural ==
    ASSUME ComposeTypes, NEW S, S \subseteq DOMAIN pool, IsFiniteSet(S)
    PROVE  /\ \A i \in DOMAIN pool : PointsAt[i] \in Nat /\ MinutesAt[i] \in Nat
           /\ SumOf(PointsAt, S) = SumOver(PointsAt, S) /\ SumOf(PointsAt, S) \in Nat
           /\ SumOf(MinutesAt, S) = SumOver(MinutesAt, S) /\ SumOf(MinutesAt, S) \in Nat
<1>1. \A i \in DOMAIN pool : PointsAt[i] \in Nat /\ MinutesAt[i] \in Nat
  BY DEF ComposeTypes, CandidateRecords, PointsAt, MinutesAt
<1>2. SumOf(PointsAt, S) = SumOver(PointsAt, S) /\ SumOf(MinutesAt, S) = SumOver(MinutesAt, S)
  BY DEF SumOf, SumOver
<1>3. SumOver(PointsAt, S) \in Nat /\ SumOver(MinutesAt, S) \in Nat
  BY <1>1, SumIsNatural
<1> QED
  BY <1>1, <1>2, <1>3

\* Scores are numbers, so that of finitely many questions some have the best,
\* and one of these comes first in the list.
LEMMA ClosenessIsNatural ==
    ASSUME chosen \in Seq(DOMAIN pool), NEW shares, NEW count,
           IsFiniteSet(DOMAIN shares),
           \A x \in DOMAIN shares : shares[x] \in Nat /\ count[x] \in Nat
    PROVE  Closeness(shares, count) \in Nat
<1> DEFINE n == Len(chosen) + 1
           far(x) == Max({100 * count[x] - shares[x] * n, shares[x] * n - 100 * count[x]})
           near == [x \in DOMAIN shares |-> Max({0, 100 * n - far(x)})]
<1>1. n \in Nat
  BY LenProperties
<1>2. ASSUME NEW x \in DOMAIN shares PROVE near[x] \in Nat
  <2> HIDE DEF n
  <2>1. /\ 100 * count[x] - shares[x] * n \in Int
        /\ shares[x] * n - 100 * count[x] \in Int
    <3>1. shares[x] \in Int /\ count[x] \in Int /\ n \in Int
      BY <1>1
    <3>2. shares[x] * n \in Int
      BY <3>1
    <3> QED
      BY <3>1, <3>2
  <2>2. far(x) \in Int
    BY <2>1, MaxOfTwo
  <2> HIDE DEF far
  <2>3. 100 * n - far(x) \in Int
    BY <1>1, <2>2
  <2>4. Max({0, 100 * n - far(x)}) \in Nat
    <3>1. ASSUME NEW z \in Int PROVE Max({0, z}) \in Nat
      <4>1. \A a, b \in Int : Max({a, b}) \in Int /\ Max({a, b}) >= a
        BY MaxOfTwo
      <4>2. 0 \in Int
        OBVIOUS
      <4>3. Max({0, z}) \in Int /\ Max({0, z}) >= 0
        BY <4>1, <4>2, Zenon
      <4> QED
        BY <4>3
    <3> QED
      BY <2>3, <3>1
  <2> QED
    BY <2>4
<1>3. Closeness(shares, count) = SumOver(near, DOMAIN shares)
  BY DEF Closeness, SumOf, SumOver
<1> HIDE DEF near
<1>4. SumOver(near, DOMAIN shares) \in Nat
  BY <1>2, SumIsNatural
<1> QED
  BY <1>3, <1>4

\* A score is the sum of two closenesses of finitely many shares.
LEMMA ScoreIsNatural ==
    ASSUME ComposeTypes, NoneTwice, NEW i \in DOMAIN pool
    PROVE  Score(i) \in Nat
<1> DEFINE with == Chosen \cup {i}
           levels == [x \in DOMAIN goal.bloom |-> Cardinality({j \in with : pool[j].bloom = x})]
           hards == [x \in DOMAIN goal.difficulty |->
                        Cardinality({j \in with : pool[j].difficulty = x})]
<1>1. IsFiniteSet(with)
  BY FS_AddElement DEF NoneTwice
<1>2. /\ \A x \in DOMAIN goal.bloom : levels[x] \in Nat
      /\ \A x \in DOMAIN goal.difficulty : hards[x] \in Nat
  <2> HIDE DEF with
  <2>1. ASSUME NEW x PROVE Cardinality({j \in with : pool[j].bloom = x}) \in Nat
    <3>1. IsFiniteSet({j \in with : pool[j].bloom = x})
      BY <1>1, FS_Subset
    <3> QED
      BY <3>1, FS_CardinalityType
  <2>2. ASSUME NEW x PROVE Cardinality({j \in with : pool[j].difficulty = x}) \in Nat
    <3>1. IsFiniteSet({j \in with : pool[j].difficulty = x})
      BY <1>1, FS_Subset
    <3> QED
      BY <3>1, FS_CardinalityType
  <2> QED
    BY <2>1, <2>2
<1>3. /\ \A x \in DOMAIN goal.bloom : goal.bloom[x] \in Nat
      /\ \A x \in DOMAIN goal.difficulty : goal.difficulty[x] \in Nat
      /\ IsFiniteSet(DOMAIN goal.bloom) /\ IsFiniteSet(DOMAIN goal.difficulty)
  <2>1. Shares(goal.bloom, Levels) /\ Shares(goal.difficulty, Difficulties)
    BY AutoComposeAssumption DEF ComposeTypes
  <2>2. IsFiniteSet(Levels)
    <3>1. \A a, b \in Int : IsFiniteSet(a..b)
      BY FS_Interval
    <3>2. 1 \in Int /\ 6 \in Int
      OBVIOUS
    <3> QED
      BY <3>1, <3>2, Zenon DEF Levels
  <2>3. IsFiniteSet(Difficulties)
    <3>1. IsFiniteSet(({} \cup {"easy"}) \cup {"medium"})
      BY FS_EmptySet, FS_AddElement
    <3>2. Difficulties = (({} \cup {"easy"}) \cup {"medium"}) \cup {"hard"}
      BY DEF Difficulties
    <3> QED
      BY <3>1, <3>2, FS_AddElement
  <2>4. \A f, S : Shares(f, S) => DOMAIN f \subseteq S /\ \A x \in DOMAIN f : f[x] \in Nat
    BY DEF Shares
  <2> QED
    BY <2>1, <2>2, <2>3, <2>4, FS_Subset
<1>4. chosen \in Seq(DOMAIN pool)
  BY DEF ComposeTypes
<1> HIDE DEF with
<1>5. DOMAIN levels = DOMAIN goal.bloom /\ DOMAIN hards = DOMAIN goal.difficulty
  OBVIOUS
<1>6. Score(i) = (IF pool[i].bloom = Missing THEN 0 ELSE Closeness(goal.bloom, levels))
                 + Closeness(goal.difficulty, hards)
  BY DEF Score, with
<1> HIDE DEF levels, hards
<1>7. Closeness(goal.bloom, levels) \in Nat /\ Closeness(goal.difficulty, hards) \in Nat
  BY <1>2, <1>3, <1>4, ClosenessIsNatural
<1> QED
  BY <1>6, <1>7

\* What is taken is one of the questions that fit.
LEMMA BestIsOneOfThem ==
    ASSUME ComposeTypes, NoneTwice, NEW S, S \subseteq DOMAIN pool, S # {}
    PROVE  Best(S) \in S
<1> DEFINE score == [i \in S |-> Score(i)]
           scores == {score[i] : i \in S}
           tops == {i \in S : \A j \in S : Score(j) <= Score(i)}
<1>1. IsFiniteSet(S) /\ S \subseteq Int
  BY FS_Subset DEF ComposeTypes
<1>2. \A i \in S : score[i] = Score(i) /\ score[i] \in Nat
  BY ScoreIsNatural
<1>3. scores \subseteq Int /\ scores # {} /\ IsFiniteSet(scores)
  <2> HIDE DEF score
  <2> QED
    BY <1>1, <1>2, FiniteImage
<1>4. Max(scores) \in scores /\ \A y \in scores : Max(scores) >= y
  <2> HIDE DEF scores
  <2> QED
    BY <1>3, LargestOfFinite
<1>5. PICK i \in S : score[i] = Max(scores)
  <2> HIDE DEF score
  <2> QED
    BY <1>4
<1>6. ASSUME NEW j \in S PROVE Score(j) <= Score(i)
  <2> HIDE DEF score
  <2>1. score[j] \in scores
    OBVIOUS
  <2> HIDE DEF scores
  <2>2. score[i] >= score[j]
    BY <1>4, <1>5, <2>1
  <2> QED
    BY <1>2, <2>2
<1>7. i \in tops
  BY <1>6
<1>8. tops \subseteq S /\ tops \subseteq Int /\ IsFiniteSet(tops)
  BY <1>1, FS_Subset
<1>9. Best(S) = Min(tops)
  BY DEF Best
<1> HIDE DEF tops
<1>10. Min(tops) \in tops
  BY <1>7, <1>8, SmallestOfFinite
<1> QED
  BY <1>8, <1>9, <1>10

-----------------------------------------------------------------------------
\* The choice starts with nothing chosen, and sums of zero.
LEMMA ComposeStarts ==
    ComposeInit => ComposeIInv
<1> SUFFICES ASSUME ComposeInit PROVE ComposeIInv
  OBVIOUS
<1>1. PICK p \in Pools : pool = RestrictValues(p, LAMBDA c : Candidate(c, goal))
  BY DEF ComposeInit
<1>2. PICK D \in SUBSET DOMAIN p : pool = [i \in D |-> p[i]]
  BY <1>1 DEF RestrictValues, Restrict
<1>3. p \in Seq(CandidateRecords)
  BY AutoComposeAssumption
<1>4. IsFiniteSet(DOMAIN p) /\ DOMAIN p \subseteq Nat
  <2>1. \A a, b \in Int : IsFiniteSet(a..b)
    BY FS_Interval
  <2>2. DOMAIN p = 1..Len(p) /\ Len(p) \in Nat
    BY <1>3, LenProperties
  <2> QED
    BY <2>1, <2>2
<1>5. \A i \in DOMAIN p : p[i] \in CandidateRecords
  BY <1>3, ElementOfSeq, LenProperties
<1>6. DOMAIN pool = D /\ IsFiniteSet(D)
  BY <1>2, <1>4, FS_Subset
<1>7. chosen = <<>> /\ done = FALSE /\ goal \in Goals
  BY DEF ComposeInit
<1>8. ComposeTypes
  <2>1. DOMAIN pool \subseteq Nat /\ IsFiniteSet(DOMAIN pool)
    BY <1>4, <1>6
  <2>2. \A i \in DOMAIN pool : pool[i] \in CandidateRecords
    BY <1>2, <1>5, <1>6
  <2>3. <<>> \in Seq(DOMAIN pool)
    OBVIOUS
  <2> QED
    BY <1>7, <2>1, <2>2, <2>3 DEF ComposeTypes
<1>9. Chosen = {} /\ Len(chosen) = 0
  BY <1>7 DEF Chosen
<1>10. NoneTwice
  BY <1>9, FS_EmptySet DEF NoneTwice
<1>11. RunningPoints = 0 /\ RunningMinutes = 0
  <2>1. SumOver(PointsAt, {}) = 0 /\ SumOver(MinutesAt, {}) = 0
    BY SumOfNone
  <2> QED
    BY <1>9, <2>1 DEF RunningPoints, RunningMinutes, SumOf, SumOver
<1>12. {goal.points, goal.minutes} \subseteq Nat \cup {Missing}
  BY <1>7, AutoComposeAssumption
<1>13. WithinBudget
  BY <1>9, <1>11, <1>12, AutoComposeAssumption DEF WithinBudget
<1> QED
  BY <1>7, <1>8, <1>10, <1>13 DEF ComposeIInv, EndsForAReason

\* The chosen question adds its points and minutes to the sums, which Fits has
\* compared with the budgets.
LEMMA ChooseKeepsBudget ==
    ASSUME ComposeIInv, Choose
    PROVE  ComposeIInv'
<1> DEFINE S == {i \in Remaining : Fits(i)}
<1>1. ComposeTypes /\ NoneTwice /\ WithinBudget
  BY DEF ComposeIInv
<1>2. S # {} /\ S \subseteq DOMAIN pool
  BY DEF Choose, Stop, Remaining
<1>3. PICK i \in S : i = Best(S)
  BY <1>1, <1>2, BestIsOneOfThem
<1>4. i \in DOMAIN pool /\ i \notin Chosen /\ Fits(i)
  BY DEF Remaining
<1>5. chosen' = Append(chosen, i)
  BY <1>3 DEF Choose
<1>6. goal' = goal /\ pool' = pool /\ done' = done /\ ~done /\ ~Stop
  BY DEF Choose
<1> HIDE DEF S
<1>7. ComposeTypes'
  <2>1. chosen' \in Seq(DOMAIN pool)
    BY <1>1, <1>4, <1>5, AppendProperties DEF ComposeTypes
  <2> QED
    BY <1>1, <1>6, <2>1 DEF ComposeTypes
<1>8. Len(chosen) \in Nat /\ Len(chosen') = Len(chosen) + 1
  BY <1>1, <1>5, LenProperties, AppendProperties DEF ComposeTypes
<1>9. Chosen' = Chosen \cup {i}
  <2>1. /\ chosen \in Seq(DOMAIN pool)
        /\ DOMAIN chosen = 1..Len(chosen) /\ DOMAIN chosen' = 1..(Len(chosen) + 1)
        /\ \A k \in 1..Len(chosen) : chosen'[k] = chosen[k]
        /\ chosen'[Len(chosen) + 1] = i
    BY <1>1, <1>4, <1>5, LenProperties, AppendProperties DEF ComposeTypes
  <2>2. Chosen' = {chosen'[k] : k \in DOMAIN chosen'}
    BY DEF Chosen
  <2> QED
    BY <1>8, <2>1, <2>2 DEF Chosen
<1>10. NoneTwice'
  BY <1>1, <1>4, <1>8, <1>9, FS_AddElement DEF NoneTwice
<1>11. Chosen \subseteq DOMAIN pool
  BY <1>1, ElementOfSeq, LenProperties DEF ComposeTypes, Chosen
<1>12. PICK C : C = Chosen \cup {i}
  OBVIOUS
<1>13. IsFiniteSet(C) /\ C \subseteq DOMAIN pool /\ i \in C /\ C \ {i} = Chosen
  BY <1>1, <1>4, <1>11, <1>12, FS_AddElement DEF NoneTwice
<1>14. /\ \A k \in DOMAIN pool : PointsAt[k] \in Nat /\ MinutesAt[k] \in Nat
       /\ SumOf(PointsAt, C) = SumOver(PointsAt, C)
       /\ SumOf(MinutesAt, C) = SumOver(MinutesAt, C)
  BY <1>1, <1>13, RunningIsNatural
<1>15. /\ RunningPoints = SumOver(PointsAt, Chosen) /\ RunningPoints \in Nat
       /\ RunningMinutes = SumOver(MinutesAt, Chosen) /\ RunningMinutes \in Nat
  BY <1>1, <1>11, RunningIsNatural DEF RunningPoints, RunningMinutes, NoneTwice
<1>16. /\ SumOver(PointsAt, C) = PointsAt[i] + SumOver(PointsAt, Chosen)
       /\ SumOver(MinutesAt, C) = MinutesAt[i] + SumOver(MinutesAt, Chosen)
  <2>1. \A k \in C : PointsAt[k] \in Nat /\ MinutesAt[k] \in Nat
    BY <1>13, <1>14
  <2> QED
    BY <1>13, <2>1, SumAdds
<1>17. PointsAt' = PointsAt /\ MinutesAt' = MinutesAt
  BY <1>6 DEF PointsAt, MinutesAt
<1>18. /\ RunningPoints' = RunningPoints + PointsAt[i]
       /\ RunningMinutes' = RunningMinutes + MinutesAt[i]
  <2>1. RunningPoints' = SumOf(PointsAt, C) /\ RunningMinutes' = SumOf(MinutesAt, C)
    BY <1>9, <1>12, <1>17 DEF RunningPoints, RunningMinutes
  <2>2. PointsAt[i] \in Nat /\ MinutesAt[i] \in Nat
    BY <1>4, <1>14
  <2> QED
    BY <1>14, <1>15, <1>16, <2>1, <2>2
<1>19. WithinBudget'
  <2>1. Len(chosen') <= MaxQuestions
    <3>1. Len(chosen) <= MaxQuestions /\ Len(chosen) # MaxQuestions
      BY <1>1, <1>6 DEF WithinBudget, Stop
    <3> QED
      BY <1>8, <3>1, AutoComposeAssumption
  <2> QED
    BY <1>4, <1>6, <1>18, <2>1 DEF WithinBudget, Fits
<1> QED
  BY <1>6, <1>7, <1>10, <1>19 DEF ComposeIInv, EndsForAReason

\* And the end of the choice changes neither the questions nor the reason.
LEMMA ComposeKept ==
    ASSUME ComposeIInv, [ComposeNext]_composeVars
    PROVE  ComposeIInv'
<1>1. CASE Choose
  BY <1>1, ChooseKeepsBudget
<1>2. CASE Finish
  <2>1. goal' = goal /\ pool' = pool /\ chosen' = chosen /\ Stop /\ done' = TRUE
    BY <1>2 DEF Finish
  <2>2. ComposeTypes' /\ NoneTwice'
    BY <2>1 DEF ComposeIInv, ComposeTypes, NoneTwice, Chosen
  <2>3. Chosen' = Chosen /\ PointsAt' = PointsAt /\ MinutesAt' = MinutesAt
    BY <2>1 DEF Chosen, PointsAt, MinutesAt
  <2>4. RunningPoints' = RunningPoints /\ RunningMinutes' = RunningMinutes
    BY <2>3 DEF RunningPoints, RunningMinutes
  <2>5. WithinBudget'
    BY <2>1, <2>4 DEF ComposeIInv, WithinBudget
  <2>6. Remaining' = Remaining
    BY <2>1, <2>3 DEF Remaining
  <2>7. \A i : Fits(i)' <=> Fits(i)
    BY <2>1, <2>3, <2>4 DEF Fits
  <2>8. BudgetExhausted' <=> BudgetExhausted
    BY <2>1, <2>4 DEF BudgetExhausted
  <2>9. Stop'
    BY <2>1, <2>6, <2>7, <2>8 DEF Stop
  <2> QED
    BY <2>2, <2>5, <2>9 DEF ComposeIInv, EndsForAReason
<1>3. CASE UNCHANGED composeVars
  <2>1. goal' = goal /\ pool' = pool /\ chosen' = chosen /\ done' = done
    BY <1>3 DEF composeVars
  <2> QED
    BY <2>1 DEF ComposeIInv, ComposeTypes, NoneTwice, WithinBudget, EndsForAReason, Stop,
                BudgetExhausted, Fits, Remaining, RunningPoints, RunningMinutes, PointsAt,
                MinutesAt, Chosen
<1> QED
  BY <1>1, <1>2, <1>3 DEF ComposeNext

\* For any list of candidates and any targets: no question is chosen twice, no
\* budget exceeded, and the choice ends only with a budget spent, the limit
\* reached, or no candidate that fits (compose_questions).
THEOREM BudgetIsFilled == ComposeSpec => []FillsBudget
<1>1. ComposeIInv => FillsBudget
  <2> SUFFICES ASSUME ComposeIInv PROVE FillsBudget
    OBVIOUS
  <2>1. NoneTwice /\ WithinBudget
    BY DEF ComposeIInv
  <2>2. ASSUME done, Len(chosen) # MaxQuestions, BudgetExhausted
        PROVE  \/ goal.points # Missing /\ RunningPoints = goal.points
               \/ goal.minutes # Missing /\ RunningMinutes = goal.minutes
    <3>1. Chosen \subseteq DOMAIN pool
      BY ElementOfSeq, LenProperties DEF ComposeIInv, ComposeTypes, Chosen
    <3>2. RunningPoints \in Nat /\ RunningMinutes \in Nat
      BY <2>1, <3>1, RunningIsNatural
         DEF ComposeIInv, RunningPoints, RunningMinutes, NoneTwice
    <3>3. {goal.points, goal.minutes} \subseteq Nat \cup {Missing}
      BY AutoComposeAssumption DEF ComposeIInv, ComposeTypes
    <3> QED
      BY <2>1, <2>2, <3>2, <3>3 DEF WithinBudget, BudgetExhausted
  <2>3. done => Stop
    BY DEF ComposeIInv, EndsForAReason
  <2> QED
    BY <2>1, <2>2, <2>3 DEF FillsBudget, NoneTwice, WithinBudget, Stop
<1> QED
  BY <1>1, ComposeStarts, ComposeKept, PTL DEF ComposeSpec

-----------------------------------------------------------------------------
(***************************************************************************)
(* Grades: clamping and rounding                                           *)
(***************************************************************************)

\* Clamping keeps a number between the limits, in its place if it is there.
LEMMA ClampIs ==
    ASSUME NEW x \in Int, NEW low \in Int, NEW high \in Int, low <= high
    PROVE  Clamp(x, low, high) = IF x <= low THEN low ELSE IF x >= high THEN high ELSE x
<1>1. Min({high, x}) = IF high >= x THEN x ELSE high
  BY TwoMin
<1>2. Min({high, x}) \in Int
  BY <1>1
<1>3. Max({low, Min({high, x})}) = IF low >= Min({high, x}) THEN low ELSE Min({high, x})
  BY <1>2, TwoMax
<1> QED
  BY <1>1, <1>3 DEF Clamp

LEMMA Division ==
    ASSUME NEW n \in Int, NEW d \in Nat \ {0}
    PROVE  /\ n \div d \in Int /\ n % d \in 0..(d - 1)
           /\ n = d * (n \div d) + (n % d)
  OBVIOUS

\* The rounded quotient is at most a half away, and even if it is a half away.
LEMMA RoundIsNear ==
    ASSUME NEW n \in Int, NEW d \in Nat \ {0}
    PROVE  /\ RoundHalfEven(n, d) \in Int
           /\ 2 * n <= 2 * (RoundHalfEven(n, d) * d) + d
           /\ 2 * (RoundHalfEven(n, d) * d) - d <= 2 * n
           /\ 2 * n = 2 * (RoundHalfEven(n, d) * d) + d => RoundHalfEven(n, d) % 2 = 0
           /\ 2 * (RoundHalfEven(n, d) * d) - d = 2 * n => RoundHalfEven(n, d) % 2 = 0
<1> DEFINE q == n \div d
           r == n % d
           a == q * d
<1>1. q \in Int /\ r \in 0..(d - 1) /\ n = d * q + r
  BY Division
<1>2. RoundHalfEven(n, d) = IF 2 * r < d \/ (2 * r = d /\ q % 2 = 0) THEN q ELSE q + 1
  BY DEF RoundHalfEven
<1> HIDE DEF q, r
<1>3. a \in Int /\ n = a + r /\ (q + 1) * d = a + d
  BY <1>1
<1> HIDE DEF a
<1>4. CASE 2 * r < d \/ (2 * r = d /\ q % 2 = 0)
  <2>1. RoundHalfEven(n, d) = q /\ q * d = a
    BY <1>2, <1>4 DEF a
  <2> QED
    BY <1>1, <1>3, <1>4, <2>1
<1>5. CASE ~(2 * r < d \/ (2 * r = d /\ q % 2 = 0))
  <2>1. RoundHalfEven(n, d) = q + 1 /\ RoundHalfEven(n, d) * d = a + d
    BY <1>2, <1>3, <1>5
  <2>2. 2 * r >= d /\ r < d /\ (2 * r = d => q % 2 # 0)
    BY <1>1, <1>5
  <2>3. q % 2 # 0 => (q + 1) % 2 = 0
    BY <1>1
  <2>4. 2 * n <= 2 * (a + d) + d /\ 2 * (a + d) - d <= 2 * n
    BY <1>1, <1>3, <2>2
  <2>5. 2 * n # 2 * (a + d) + d /\ (2 * (a + d) - d = 2 * n => 2 * r = d)
    BY <1>1, <1>3, <2>2
  <2> QED
    BY <1>1, <2>1, <2>2, <2>3, <2>4, <2>5
<1> QED
  BY <1>4, <1>5

LEMMA ProductGrows ==
    ASSUME NEW x \in Int, NEW y \in Int, NEW z \in Nat, x <= y
    PROVE  x * z <= y * z
  OBVIOUS

LEMMA ProductGrowsStrictly ==
    ASSUME NEW x \in Int, NEW y \in Int, NEW z \in Nat \ {0}, x * z <= y * z
    PROVE  x <= y
  OBVIOUS

\* Rounding keeps the order of two quotients.
LEMMA RoundKeepsOrder ==
    ASSUME NEW n \in Int, NEW d \in Nat \ {0}, NEW m \in Int, NEW e \in Nat \ {0},
           n * e <= m * d
    PROVE  RoundHalfEven(n, d) <= RoundHalfEven(m, e)
<1> DEFINE p == RoundHalfEven(n, d)
           q == RoundHalfEven(m, e)
<1>1. /\ p \in Int
      /\ 2 * (p * d) - d <= 2 * n
      /\ 2 * (p * d) - d = 2 * n => p % 2 = 0
  BY RoundIsNear
<1>2. /\ q \in Int
      /\ 2 * m <= 2 * (q * e) + e
      /\ 2 * m = 2 * (q * e) + e => q % 2 = 0
  BY RoundIsNear
<1> HIDE DEF p, q
<1> SUFFICES ASSUME p > q PROVE FALSE
  BY <1>1, <1>2 DEF p, q
<1> DEFINE k == d * e
<1>3. k \in Nat \ {0}
  OBVIOUS
<1>4. (2 * p - 1) * k <= 2 * (n * e)
  <2>1. (2 * p - 1) * d = 2 * (p * d) - d
    BY <1>1
  <2>2. (2 * p - 1) * d <= 2 * n
    BY <1>1, <2>1
  <2>3. ((2 * p - 1) * d) * e <= (2 * n) * e
    BY <1>1, <2>2, ProductGrows
  <2> QED
    BY <1>1, <2>3
<1>5. 2 * (m * d) <= (2 * q + 1) * k
  <2>1. (2 * q + 1) * e = 2 * (q * e) + e
    BY <1>2
  <2>2. 2 * m <= (2 * q + 1) * e
    BY <1>2, <2>1
  <2>3. (2 * m) * d <= ((2 * q + 1) * e) * d
    BY <1>2, <2>2, ProductGrows
  <2> QED
    BY <1>2, <2>3
<1>6. (2 * p - 1) * k <= (2 * q + 1) * k
  BY <1>1, <1>2, <1>3, <1>4, <1>5
<1>7. 2 * p - 1 <= 2 * q + 1
  BY <1>1, <1>2, <1>3, <1>6, ProductGrowsStrictly
<1>8. p = q + 1
  BY <1>1, <1>2, <1>7
<1>9. 2 * p - 1 = 2 * q + 1
  BY <1>1, <1>2, <1>8
<1>10. 2 * (n * e) = (2 * p - 1) * k /\ 2 * (m * d) = (2 * q + 1) * k
  BY <1>1, <1>2, <1>3, <1>4, <1>5, <1>9
<1>11. (2 * n) * e = (2 * (p * d) - d) * e
  BY <1>1, <1>10
<1>12. (2 * m) * d = (2 * (q * e) + e) * d
  BY <1>2, <1>10
<1>13. 2 * n = 2 * (p * d) - d
  <2>1. 2 * n \in Int /\ 2 * (p * d) - d \in Int
    BY <1>1
  <2> QED
    BY <1>11, <2>1, ProductGrowsStrictly, <1>1
<1>14. 2 * m = 2 * (q * e) + e
  <2>1. 2 * m \in Int /\ 2 * (q * e) + e \in Int
    BY <1>2
  <2>2. 2 * m <= 2 * (q * e) + e
    BY <1>2
  <2>3. (2 * (q * e) + e) * d <= (2 * m) * d
    BY <1>12, <2>1
  <2>4. 2 * (q * e) + e <= 2 * m
    BY <2>1, <2>3, ProductGrowsStrictly
  <2> QED
    BY <2>1, <2>2, <2>4
<1> QED
  BY <1>1, <1>2, <1>8, <1>13, <1>14

-----------------------------------------------------------------------------
(***************************************************************************)
(* Grades: one line, and one after the other                               *)
(***************************************************************************)

\* A line of percentages and grades that does not fall.
RisingLine(s) ==
    /\ s.from \in Int /\ s.to \in Int /\ s.from < s.to
    /\ s.fromGrade \in Int /\ s.toGrade \in Int /\ s.fromGrade <= s.toGrade

Width(s) == s.to - s.from
Unit(step) == IF step = 0 THEN 1 ELSE step
Along(s, pct) == Clamp(pct - s.from, 0, Width(s))
Height(s, pct) == s.fromGrade * Width(s) + Along(s, pct) * (s.toGrade - s.fromGrade)

LEMMA AlongIs ==
    ASSUME NEW s, RisingLine(s), NEW p \in Int, NEW q \in Int, p <= q
    PROVE  /\ Width(s) \in Nat \ {0}
           /\ Along(s, p) \in 0..Width(s) /\ Along(s, q) \in 0..Width(s)
           /\ Along(s, p) <= Along(s, q)
<1>1. Width(s) \in Nat \ {0} /\ p - s.from \in Int /\ q - s.from \in Int
  BY DEF RisingLine, Width
<1>2. p - s.from <= q - s.from
  BY DEF RisingLine
<1> DEFINE w == Width(s)
           x == p - s.from
           y == q - s.from
<1>3. /\ Along(s, p) = IF x <= 0 THEN 0 ELSE IF x >= w THEN w ELSE x
      /\ Along(s, q) = IF y <= 0 THEN 0 ELSE IF y >= w THEN w ELSE y
  BY <1>1, ClampIs DEF Along
<1> HIDE DEF w, x, y
<1> QED
  BY <1>1, <1>2, <1>3 DEF w, x, y

LEMMA HeightIs ==
    ASSUME NEW s, RisingLine(s), NEW p \in Int, NEW q \in Int, p <= q
    PROVE  /\ Height(s, p) \in Int /\ Height(s, q) \in Int
           /\ Height(s, p) <= Height(s, q)
           /\ s.fromGrade * Width(s) <= Height(s, p)
           /\ Height(s, p) <= s.toGrade * Width(s)
<1> DEFINE w == Width(s)
           x == Along(s, p)
           y == Along(s, q)
           g == s.fromGrade
           h == s.toGrade - s.fromGrade
<1>1. w \in Nat \ {0} /\ x \in 0..w /\ y \in 0..w /\ x <= y
  BY AlongIs
<1>2. g \in Int /\ h \in Nat /\ s.toGrade = g + h
  BY DEF RisingLine
<1>3. Height(s, p) = g * w + x * h /\ Height(s, q) = g * w + y * h
  BY DEF Height
<1> HIDE DEF w, x, y, g, h
<1>4. x * h <= y * h /\ 0 <= x * h /\ x * h <= w * h
  <2>1. 0 * h <= x * h /\ x * h <= w * h /\ x * h <= y * h
    BY <1>1, <1>2, ProductGrows
  <2> QED
    BY <1>2, <2>1
<1>5. g * w \in Int /\ x * h \in Int /\ y * h \in Int /\ w * h \in Int
  BY <1>1, <1>2
<1>6. s.toGrade * w = g * w + w * h
  BY <1>1, <1>2
<1> QED
  BY <1>3, <1>4, <1>5, <1>6 DEF w, g

LEMMA InterpolateIs ==
    ASSUME NEW s, NEW pct, NEW step
    PROVE  Interpolate(s, pct, step)
             = Unit(step) * RoundHalfEven(Height(s, pct), Width(s) * Unit(step))
  BY DEF Interpolate, Unit, Height, Along, Width

\* The order of two heights over their widths is the order of the grades.
LEMMA GradesFollow ==
    ASSUME NEW n \in Int, NEW d \in Nat \ {0}, NEW m \in Int, NEW e \in Nat \ {0},
           n * e <= m * d, NEW u \in Nat \ {0}
    PROVE  u * RoundHalfEven(n, d * u) <= u * RoundHalfEven(m, e * u)
<1>1. d * u \in Nat \ {0} /\ e * u \in Nat \ {0}
  OBVIOUS
<1>2. n * (e * u) <= m * (d * u)
  <2>1. (n * e) * u <= (m * d) * u
    BY ProductGrows
  <2> QED
    BY <2>1
<1>3. RoundHalfEven(n, d * u) <= RoundHalfEven(m, e * u)
  BY <1>1, <1>2, RoundKeepsOrder
<1>4. RoundHalfEven(n, d * u) \in Int /\ RoundHalfEven(m, e * u) \in Int
  BY <1>1, RoundIsNear
<1> HIDE DEF RoundHalfEven
<1> QED
  BY <1>3, <1>4, ProductGrows

\* On one line a higher percentage gets no lower grade.
LEMMA OneLineRises ==
    ASSUME NEW s, RisingLine(s), NEW p \in Int, NEW q \in Int, p <= q, NEW step \in Nat
    PROVE  Interpolate(s, p, step) <= Interpolate(s, q, step)
<1>1. Width(s) \in Nat \ {0} /\ Unit(step) \in Nat \ {0}
  BY AlongIs DEF Unit
<1>2. Height(s, p) \in Int /\ Height(s, q) \in Int /\ Height(s, p) <= Height(s, q)
  BY HeightIs
<1>3. Height(s, p) * Width(s) <= Height(s, q) * Width(s)
  BY <1>1, <1>2, ProductGrows
<1> QED
  BY <1>1, <1>2, <1>3, GradesFollow, InterpolateIs

\* Nor on a line that begins where another one has ended, or above it.
LEMMA NextLineRises ==
    ASSUME NEW s, RisingLine(s), NEW t, RisingLine(t), s.toGrade <= t.fromGrade,
           NEW p \in Int, NEW q \in Int, NEW step \in Nat
    PROVE  Interpolate(s, p, step) <= Interpolate(t, q, step)
<1> DEFINE v == Width(s)
           w == Width(t)
           n == Height(s, p)
           m == Height(t, q)
<1>1. v \in Nat \ {0} /\ w \in Nat \ {0} /\ Unit(step) \in Nat \ {0}
  BY AlongIs DEF Unit
<1>2. n \in Int /\ m \in Int /\ n <= s.toGrade * v /\ t.fromGrade * w <= m
  BY HeightIs
<1>3. n * w <= m * v
  <2>1. s.toGrade \in Int /\ t.fromGrade \in Int
    BY DEF RisingLine
  <2> HIDE DEF n, m, v, w
  <2> DEFINE a == s.toGrade
             b == t.fromGrade
             av == a * v
             bw == b * w
  <2>2. a \in Int /\ b \in Int /\ av \in Int /\ bw \in Int
    BY <1>1, <2>1
  <2>3. n * w <= av * w /\ bw * v <= m * v
    BY <1>1, <1>2, <2>2, ProductGrows
  <2>4. a * (v * w) <= b * (v * w)
    BY <1>1, <2>1, ProductGrows
  <2>5. av * w = a * (v * w) /\ bw * v = b * (v * w)
    BY <1>1, <2>2
  <2>6. /\ n * w \in Int /\ m * v \in Int
        /\ a * (v * w) \in Int /\ b * (v * w) \in Int
    BY <1>1, <1>2, <2>2
  <2> QED
    BY <2>3, <2>4, <2>5, <2>6
<1> QED
  BY <1>1, <1>2, <1>3, GradesFollow, InterpolateIs

-----------------------------------------------------------------------------
(***************************************************************************)
(* Grades: the segments of a scheme                                        *)
(***************************************************************************)

\* The segments of a saved scheme.
LEMMA SegmentsTyped ==
    ASSUME NEW S, ValidSegments(S)
    PROVE  /\ S # {}
           /\ \A s \in S : s.from \in Int /\ s.to \in Int /\ s.from < s.to
           /\ \A s \in S : s.from \in 0..Full /\ s.to \in 0..Full
           /\ \A s, t \in S : s # t => s.from # t.from
  BY MarkingAssumption DEF ValidSegments, Percent, Covers

LEMMA FirstOfFinite ==
    ASSUME NEW S, IsFiniteSet(S), S # {}, \A s \in S : s.from \in Int
    PROVE  First(S) \in S /\ \A t \in S : First(S).from <= t.from
<1> DEFINE f == [s \in S |-> s.from]
           T == {f[s] : s \in S}
<1>1. T \subseteq Int /\ T # {} /\ IsFiniteSet(T)
  BY FiniteImage
<1>2. Min(T) \in T /\ \A y \in T : Min(T) <= y
  <2> HIDE DEF T
  <2> QED
    BY <1>1, SmallestOfFinite
<1>3. PICK s \in S : f[s] = Min(T)
  BY <1>2
<1>4. \A t \in S : s.from <= t.from
  <2> TAKE t \in S
  <2>1. f[t] \in T
    OBVIOUS
  <2>2. f[s] <= f[t]
    BY <1>2, <1>3, <2>1
  <2> QED
    BY <2>2
<1> QED
  BY <1>4, Zenon DEF First

LEMMA LastOfFinite ==
    ASSUME NEW S, IsFiniteSet(S), S # {}, \A s \in S : s.from \in Int
    PROVE  TopSegment(S) \in S /\ \A t \in S : t.from <= TopSegment(S).from
<1> DEFINE f == [s \in S |-> s.from]
           T == {f[s] : s \in S}
<1>1. T \subseteq Int /\ T # {} /\ IsFiniteSet(T)
  BY FiniteImage
<1>2. Max(T) \in T /\ \A y \in T : Max(T) >= y
  <2> HIDE DEF T
  <2> QED
    BY <1>1, LargestOfFinite
<1>3. PICK s \in S : f[s] = Max(T)
  BY <1>2
<1>4. \A t \in S : t.from <= s.from
  <2> TAKE t \in S
  <2>1. f[t] \in T /\ f[t] \in Int /\ f[s] \in Int
    OBVIOUS
  <2>2. f[t] <= f[s]
    BY <1>2, <1>3, <2>1
  <2> QED
    BY <2>2
<1> QED
  BY <1>4, Zenon DEF TopSegment

\* A segment that is not the last ends where another one begins, the next.
LEMMA NextSegment ==
    ASSUME NEW S, IsFiniteSet(S), ValidSegments(S), NEW s \in S, NEW u \in S,
           s.from < u.from
    PROVE  \E t \in S : /\ s.to = t.from /\ s.from < t.from
                        /\ \A v \in S : s.from < v.from => t.from <= v.from
<1> DEFINE later == {x \in S : x.from > s.from}
           f == [t \in later |-> t.from]
           T == {f[t] : t \in later}
<1>1. \A t \in S : t.from \in Int
  BY SegmentsTyped
<1>2. u \in later /\ later \subseteq S
  BY <1>1
<1>3. IsFiniteSet(later)
  BY <1>2, FS_Subset
<1>4. T \subseteq Int /\ T # {}
  BY <1>1, <1>2
<1>5. IsFiniteSet(T)
  <2> HIDE DEF later
  <2> QED
    BY <1>3, FiniteImage
<1>6. Min(T) \in T /\ \A y \in T : Min(T) <= y
  <2> HIDE DEF T
  <2> QED
    BY <1>4, <1>5, SmallestOfFinite
<1>7. s.to = Min(T)
  <2>1. s # TopSegment(S)
    <3>1. u.from <= TopSegment(S).from
      BY <1>1, LastOfFinite
    <3> QED
      BY <1>1, <3>1
  <2>2. {t.from : t \in {x \in S : x.from > s.from}} = T
    OBVIOUS
  <2> QED
    BY <2>1, <2>2 DEF ValidSegments, Covers
<1>8. PICK t \in later : f[t] = Min(T)
  BY <1>6
<1>9. s.to = t.from /\ s.from < t.from /\ t \in S
  BY <1>1, <1>7, <1>8
<1>10. ASSUME NEW v \in S, s.from < v.from PROVE t.from <= v.from
  <2>1. v \in later
    BY <1>1, <1>10
  <2>2. f[v] \in T /\ f[v] = v.from
    BY <2>1
  <2> QED
    BY <1>6, <1>8, <2>2
<1> QED
  BY <1>9, <1>10

\* Every percentage on the scale is in a segment.
LEMMA SegmentsCover ==
    ASSUME NEW S, IsFiniteSet(S), ValidSegments(S), NEW pct \in 0..Full
    PROVE  \E s \in S : InRange(S, s, pct)
<1> DEFINE below == {x \in S : x.from <= pct}
<1>1. \A t \in S : t.from \in Int
  BY SegmentsTyped
<1>2. S # {}
  BY SegmentsTyped
<1>3. First(S) \in below
  <2>1. First(S) \in S
    BY <1>1, <1>2, FirstOfFinite
  <2>2. First(S).from = 0
    BY DEF ValidSegments, Covers
  <2> QED
    BY <2>1, <2>2
<1>4. IsFiniteSet(below)
  BY FS_Subset
<1>5. TopSegment(below) \in below /\ \A t \in below : t.from <= TopSegment(below).from
  <2>1. below # {} /\ \A s \in below : s.from \in Int
    BY <1>1, <1>3
  <2> HIDE DEF below
  <2> QED
    BY <1>4, <2>1, LastOfFinite
<1>6. PICK s \in below : \A t \in below : t.from <= s.from
  BY <1>5
<1>7. s \in S /\ s.from <= pct /\ s.from \in Int /\ s.to \in Int /\ pct \in Int
  BY SegmentsTyped
<1>8. CASE s = TopSegment(S)
  <2>1. s.to = Full
    BY <1>8 DEF ValidSegments, Covers
  <2>2. pct <= s.to
    BY <2>1, MarkingAssumption
  <2> QED
    BY <1>7, <1>8, <2>2 DEF InRange
<1>9. CASE s # TopSegment(S)
  <2>1. TopSegment(S) \in S /\ \A t \in S : t.from <= TopSegment(S).from
    BY <1>1, <1>2, LastOfFinite
  <2>2. s.from < TopSegment(S).from
    BY <1>1, <1>7, <1>9, <2>1, SegmentsTyped
  <2>3. PICK t \in S : s.to = t.from /\ s.from < t.from
    BY <1>7, <2>1, <2>2, NextSegment
  <2>4. t \notin below
    BY <1>1, <1>6, <1>7, <2>3
  <2>5. pct < s.to
    BY <1>1, <1>7, <2>3, <2>4
  <2> QED
    BY <1>7, <2>5 DEF InRange
<1> QED
  BY <1>8, <1>9

LEMMA SegmentIs ==
    ASSUME NEW S, IsFiniteSet(S), ValidSegments(S), NEW pct \in 0..Full
    PROVE  Segment(S, pct) \in S /\ InRange(S, Segment(S, pct), pct)
<1> DEFINE around == {s \in S : InRange(S, s, pct)}
<1>1. around # {} /\ \A s \in around : s.from \in Int
  BY SegmentsCover, SegmentsTyped
<1>2. IsFiniteSet(around)
  BY FS_Subset
<1>3. First(around) \in around
  <2> HIDE DEF around
  <2> QED
    BY <1>1, <1>2, FirstOfFinite
<1> QED
  BY <1>3 DEF Segment

\* Where the segments rise and join, one that begins later begins no lower
\* than another one ends.
LEMMA LaterIsHigher ==
    ASSUME NEW S, IsFiniteSet(S), ValidSegments(S), Rises(S),
           \A s \in S : s.fromGrade \in Int /\ s.toGrade \in Int,
           NEW s \in S, NEW t \in S, s.from < t.from
    PROVE  s.toGrade <= t.fromGrade
<1> DEFINE Bad == {x \in S : s.from < x.from /\ ~(s.toGrade <= x.fromGrade)}
<1>1. SUFFICES ASSUME Bad # {} PROVE FALSE
  OBVIOUS
<1>2. \A x \in S : x.from \in Int
  BY SegmentsTyped
<1>3. IsFiniteSet(Bad)
  BY FS_Subset
<1>4. First(Bad) \in Bad /\ \A x \in Bad : First(Bad).from <= x.from
  <2>1. \A x \in Bad : x.from \in Int
    BY <1>2
  <2> HIDE DEF Bad
  <2> QED
    BY <1>1, <1>3, <2>1, FirstOfFinite
<1>5. PICK x \in Bad : \A y \in Bad : x.from <= y.from
  BY <1>4
<1>6. x \in S /\ s.from < x.from /\ ~(s.toGrade <= x.fromGrade)
  OBVIOUS
<1> DEFINE before == {y \in S : y.from < x.from}
<1>7. IsFiniteSet(before) /\ s \in before
  BY <1>6, FS_Subset
<1>8. TopSegment(before) \in before /\ \A y \in before : y.from <= TopSegment(before).from
  <2>1. \A y \in before : y.from \in Int
    BY <1>2
  <2> HIDE DEF before
  <2> QED
    BY <1>7, <2>1, LastOfFinite
<1>9. PICK v \in before : \A y \in before : y.from <= v.from
  BY <1>8
<1>10. v \in S /\ v.from < x.from /\ s.from <= v.from
  BY <1>7, <1>9
<1>11. PICK z \in S : /\ v.to = z.from /\ v.from < z.from
                      /\ \A y \in S : v.from < y.from => z.from <= y.from
  BY <1>6, <1>10, NextSegment
<1>12. z.from <= x.from
  BY <1>6, <1>10, <1>11
<1>13. z \notin before
  BY <1>2, <1>9, <1>10, <1>11
<1>14. z.from = x.from
  BY <1>2, <1>6, <1>11, <1>12, <1>13
<1>15. v.toGrade <= x.fromGrade
  BY <1>6, <1>10, <1>11, <1>14 DEF Rises
<1>16. CASE s.from = v.from
  <2>1. s = v
    BY <1>10, <1>16, SegmentsTyped
  <2> QED
    BY <1>6, <1>15, <2>1
<1>17. CASE s.from # v.from
  <2>1. s.from < v.from
    BY <1>2, <1>10, <1>17
  <2>2. v \notin Bad
    BY <1>2, <1>5, <1>10, <1>6
  <2>3. s.toGrade <= v.fromGrade
    BY <1>10, <2>1, <2>2
  <2>4. v.fromGrade <= v.toGrade
    BY <1>10 DEF Rises
  <2>5. s.toGrade \in Int /\ v.fromGrade \in Int /\ v.toGrade \in Int /\ x.fromGrade \in Int
    BY <1>6, <1>10
  <2> QED
    BY <1>6, <1>15, <2>3, <2>4, <2>5
<1> QED
  BY <1>16, <1>17

\* More points get no lower grade under segments that rise and join.
LEMMA SegmentsRise ==
    ASSUME NEW S, IsFiniteSet(S), ValidSegments(S), Rises(S),
           \A s \in S : s.fromGrade \in Int /\ s.toGrade \in Int,
           NEW p \in 0..Full, NEW q \in 0..Full, p <= q, NEW step \in Nat
    PROVE  Interpolate(Segment(S, p), p, step) <= Interpolate(Segment(S, q), q, step)
<1>1. PICK s \in S : s = Segment(S, p) /\ InRange(S, s, p)
  BY SegmentIs
<1>2. PICK t \in S : t = Segment(S, q) /\ InRange(S, t, q)
  BY SegmentIs
<1>3. p \in Int /\ q \in Int
  BY MarkingAssumption
<1>4. \A x \in S : RisingLine(x)
  BY SegmentsTyped DEF RisingLine, Rises
<1>5. CASE s = t
  BY <1>1, <1>2, <1>3, <1>4, <1>5, OneLineRises
<1>6. CASE s.from < t.from
  <2>1. s.toGrade <= t.fromGrade
    BY <1>6, LaterIsHigher
  <2> QED
    BY <1>1, <1>2, <1>3, <1>4, <2>1, NextLineRises
<1>7. CASE s # t /\ ~(s.from < t.from)
  <2>1. t.from < s.from /\ s.from \in Int /\ t.from \in Int /\ t.to \in Int /\ s.to \in Int
    BY <1>7, SegmentsTyped
  <2>2. t # TopSegment(S)
    BY <2>1, SegmentsTyped, LastOfFinite
  <2>3. q < t.to
    BY <1>2, <2>2 DEF InRange
  <2>4. t.to <= s.from
    BY <2>1, NextSegment
  <2>5. s.from <= p
    BY <1>1 DEF InRange
  <2> QED
    BY <1>3, <2>1, <2>3, <2>4, <2>5
<1> QED
  BY <1>5, <1>6, <1>7

-----------------------------------------------------------------------------
(***************************************************************************)
(* Grades: saved schemes                                                   *)
(***************************************************************************)

LEMMA Clamped ==
    ASSUME NEW p \in Int, NEW q \in Int, p <= q
    PROVE  /\ Clamp(p, 0, Full) \in 0..Full /\ Clamp(q, 0, Full) \in 0..Full
           /\ Clamp(p, 0, Full) <= Clamp(q, 0, Full)
<1>1. Full \in Int /\ 0 <= Full
  BY MarkingAssumption
<1>2. /\ Clamp(p, 0, Full) = IF p <= 0 THEN 0 ELSE IF p >= Full THEN Full ELSE p
      /\ Clamp(q, 0, Full) = IF q <= 0 THEN 0 ELSE IF q >= Full THEN Full ELSE q
  BY <1>1, ClampIs
<1> QED
  BY <1>1, <1>2

\* The step of a percentage on the scale is the highest one that is reached.
LEMMA StepIs ==
    ASSUME NEW S, IsFiniteSet(S), ValidSteps(S), NEW pct \in 0..Full
    PROVE  /\ FindStep(S, pct) \in S /\ FindStep(S, pct).min <= pct
           /\ \A t \in S : pct >= t.min => t.min <= FindStep(S, pct).min
<1> DEFINE reached == {s \in S : pct >= s.min}
           f == [s \in reached |-> s.min]
           T == {f[s] : s \in reached}
<1>1. \A s \in S : s.min \in Int
  BY MarkingAssumption DEF ValidSteps, Percent
<1>2. pct \in Int /\ pct >= 0
  BY MarkingAssumption
<1>3. reached # {}
  BY <1>2 DEF ValidSteps
<1>4. IsFiniteSet(reached)
  BY FS_Subset
<1>5. T \subseteq Int /\ T # {}
  BY <1>1, <1>3
<1>6. IsFiniteSet(T)
  <2> HIDE DEF reached
  <2> QED
    BY <1>4, FiniteImage
<1>7. Max(T) \in T /\ \A y \in T : Max(T) >= y
  <2> HIDE DEF T
  <2> QED
    BY <1>5, <1>6, LargestOfFinite
<1>8. PICK s \in reached : f[s] = Max(T)
  BY <1>7
<1>9. \A t \in reached : t.min <= s.min
  <2> TAKE t \in reached
  <2>1. f[t] \in T /\ f[t] \in Int /\ f[s] \in Int
    BY <1>1
  <2>2. f[t] <= f[s]
    BY <1>7, <1>8, <2>1
  <2> QED
    BY <2>2
<1>10. FindStep(S, pct) = CHOOSE x \in reached : \A t \in reached : t.min <= x.min
  BY <1>3, Zenon DEF FindStep
<1>11. /\ FindStep(S, pct) \in reached
       /\ \A t \in reached : t.min <= FindStep(S, pct).min
  BY <1>9, <1>10, Zenon
<1> QED
  BY <1>1, <1>2, <1>11

LEMMA StepsPassOn ==
    ASSUME NEW S, IsFiniteSet(S), ValidSteps(S),
           \A s, t \in S : s.min <= t.min /\ s.passing => t.passing,
           NEW p \in 0..Full, NEW q \in 0..Full, p <= q, FindStep(S, p).passing
    PROVE  FindStep(S, q).passing
<1>1. \A s \in S : s.min \in Int
  BY MarkingAssumption DEF ValidSteps, Percent
<1>2. p \in Int /\ q \in Int
  BY MarkingAssumption
<1>3. FindStep(S, p) \in S /\ FindStep(S, p).min <= p /\ FindStep(S, q) \in S
  BY StepIs
<1>4. q >= FindStep(S, p).min
  BY <1>1, <1>2, <1>3
<1>5. FindStep(S, p).min <= FindStep(S, q).min
  BY <1>3, <1>4, StepIs
<1> QED
  BY <1>3, <1>5

-----------------------------------------------------------------------------
\* The scheme in use has passed the validators.
SchemeSaved == scheme = Null \/ (scheme \in Schemes /\ Valid(scheme))

LEMMA SchemesAreValid == MarkingSpec => []SchemeSaved
<1>1. MarkingInit => SchemeSaved
  BY DEF MarkingInit, SchemeSaved
<1>2. SchemeSaved /\ [SaveScheme \/ GradeAnswer]_markingVars => SchemeSaved'
  <2> SUFFICES ASSUME SchemeSaved, [SaveScheme \/ GradeAnswer]_markingVars
               PROVE  SchemeSaved'
    OBVIOUS
  <2>1. CASE SaveScheme
    <3>1. PICK c \in Schemes : Valid(c) /\ scheme' = c
      BY <2>1 DEF SaveScheme
    <3> QED
      BY <3>1 DEF SchemeSaved
  <2>2. CASE GradeAnswer
    BY <2>2 DEF GradeAnswer, SchemeSaved
  <2>3. CASE UNCHANGED markingVars
    BY <2>3 DEF markingVars, SchemeSaved
  <2> QED
    BY <2>1, <2>2, <2>3
<1> QED
  BY <1>1, <1>2, PTL DEF MarkingSpec

LEMMA ValidIsGradable ==
    ASSUME NEW c \in Schemes, Valid(c), NEW p \in Int
    PROVE  Gradable(c, p)
<1> SUFFICES ASSUME c.type = "linear_segments"
             PROVE  \E s \in c.segments : InRange(c.segments, s, Clamp(p, 0, Full))
  BY DEF Gradable
<1>1. IsFiniteSet(c.segments) /\ ValidSegments(c.segments)
  BY SchemesAssumption DEF Valid
<1>2. Clamp(p, 0, Full) \in 0..Full
  BY Clamped
<1> QED
  BY <1>1, <1>2, SegmentsCover

LEMMA ValidGradesRise ==
    ASSUME NEW c \in Schemes, Valid(c), NEW p \in Int, NEW q \in Int, p <= q,
           \/ c.type = "linear_segments" /\ Rises(c.segments)
           \/ c.type = "linear" /\ c.fromGrade <= c.toGrade
    PROVE  Grade(c, p) <= Grade(c, q)
<1> DEFINE x == Clamp(p, 0, Full)
           y == Clamp(q, 0, Full)
<1>1. x \in 0..Full /\ y \in 0..Full /\ x <= y /\ x \in Int /\ y \in Int
  BY Clamped
<1>2. CASE c.type = "linear_segments" /\ Rises(c.segments)
  <2>1. IsFiniteSet(c.segments) /\ ValidSegments(c.segments)
    BY <1>2, SchemesAssumption DEF Valid
  <2>2. c.round \in Nat
    BY <1>2, SchemesAssumption
  <2>3. \A s \in c.segments : s.fromGrade \in Int /\ s.toGrade \in Int
    BY <1>2, SchemesAssumption
  <2>4. /\ Grade(c, p) = Interpolate(Segment(c.segments, x), x, c.round)
        /\ Grade(c, q) = Interpolate(Segment(c.segments, y), y, c.round)
    BY <1>2 DEF Grade
  <2> HIDE DEF x, y
  <2> QED
    BY <1>1, <1>2, <2>1, <2>2, <2>3, <2>4, SegmentsRise
<1>3. CASE c.type = "linear" /\ c.fromGrade <= c.toGrade
  <2>1. c.round \in Nat /\ c.fromGrade \in Int /\ c.toGrade \in Int
    BY <1>3, SchemesAssumption
  <2>2. c.from \in Int /\ c.to \in Int /\ c.from < c.to
    BY <1>3, MarkingAssumption DEF Valid, Percent
  <2>3. RisingLine(c)
    BY <1>3, <2>1, <2>2 DEF RisingLine
  <2>4. Grade(c, p) = Interpolate(c, x, c.round) /\ Grade(c, q) = Interpolate(c, y, c.round)
    BY <1>3 DEF Grade
  <2> HIDE DEF x, y
  <2> QED
    BY <1>1, <2>1, <2>3, <2>4, OneLineRises
<1> QED
  BY <1>2, <1>3

LEMMA ValidStepsPass ==
    ASSUME NEW c \in Schemes, Valid(c), NEW p \in Int, NEW q \in Int, p <= q,
           c.type = "stepped",
           \A s, t \in c.steps : s.min <= t.min /\ s.passing => t.passing,
           NEW threshold, Passes(c, p, threshold)
    PROVE  Passes(c, q, threshold)
<1> DEFINE x == Clamp(p, 0, Full)
           y == Clamp(q, 0, Full)
<1>1. x \in 0..Full /\ y \in 0..Full /\ x <= y
  BY Clamped
<1>2. IsFiniteSet(c.steps) /\ ValidSteps(c.steps)
  BY SchemesAssumption DEF Valid
<1>3. FindStep(c.steps, x).passing
  BY DEF Passes
<1>4. FindStep(c.steps, y).passing
  <2> HIDE DEF x, y
  <2> QED
    BY <1>1, <1>2, <1>3, StepsPassOn
<1> QED
  BY <1>4 DEF Passes

\* Whatever schemes clients send, one that could be saved grades every
\* percentage, and more points never hurt under it (percentage_to_grade,
\* is_passing), rounding to the nearest, ties to even, included.
THEOREM SchemesGrade == MarkingSpec => []SavedSchemesGrade
<1>1. ASSUME SchemeSaved PROVE SavedSchemesGrade
  <2> SUFFICES ASSUME scheme # Null PROVE SavedSchemesGrade
    BY DEF SavedSchemesGrade, MorePointsNeverHurt
  <2>1. scheme \in Schemes /\ Valid(scheme)
    BY <1>1 DEF SchemeSaved
  <2>2. Percentages \subseteq Int
    BY MarkingAssumption
  <2>3. \A p \in Percentages : Gradable(scheme, p)
    BY <2>1, <2>2, ValidIsGradable
  <2>4. MorePointsNeverHurt
    <3>1. SUFFICES ASSUME NEW p \in Percentages, NEW q \in Percentages, p <= q
          PROVE  /\ \/ scheme.type = "linear_segments" /\ Rises(scheme.segments)
                    \/ scheme.type = "linear" /\ scheme.fromGrade <= scheme.toGrade
                    => Grade(scheme, p) <= Grade(scheme, q)
                 /\ /\ scheme.type = "stepped"
                    /\ \A s, t \in scheme.steps : s.min <= t.min /\ s.passing => t.passing
                    /\ Passes(scheme, p, Full)
                    => Passes(scheme, q, Full)
      BY DEF MorePointsNeverHurt
    <3>2. p \in Int /\ q \in Int
      BY <2>2
    <3> QED
      BY <2>1, <3>1, <3>2, ValidGradesRise, ValidStepsPass
  <2> QED
    BY <2>3, <2>4 DEF SavedSchemesGrade
<1> QED
  BY <1>1, SchemesAreValid, PTL

-----------------------------------------------------------------------------
(***************************************************************************)
(* Scores: the multiple-choice grader                                      *)
(***************************************************************************)

\* A share of the points: the part of the right options less the part of the
\* wrong ones, never below 0.
SharedOut(s, right, wrong, k, w) ==
    /\ s.d \in Nat \ {0} /\ s.n \in 0..s.d
    /\ w = 0 => s.d = k /\ s.n = right
    /\ w # 0 => /\ s.d = k * w
                /\ s.n = IF right * w <= wrong * k THEN 0 ELSE right * w - wrong * k

LEMMA ShareIs ==
    ASSUME NEW right \in Nat, NEW wrong \in Nat, NEW k \in Nat \ {0}, NEW w \in Nat,
           right <= k
    PROVE  SharedOut(Share(right, wrong, k, w), right, wrong, k, w)
<1>1. CASE w = 0
  <2>1. Share(right, wrong, k, w) = [n |-> right, d |-> k]
    BY <1>1 DEF Share
  <2>2. Share(right, wrong, k, w).n = right /\ Share(right, wrong, k, w).d = k
    BY <2>1
  <2> QED
    BY <1>1, <2>2 DEF SharedOut
<1>2. CASE w # 0
  <2> DEFINE rw == right * w
             wk == wrong * k
             kw == k * w
             high == Max({0, rw - wk})
  <2>1. rw \in Nat /\ wk \in Nat /\ kw \in Nat \ {0} /\ rw <= kw
    BY <1>2, ProductGrows
  <2>2. Share(right, wrong, k, w) = [n |-> high, d |-> kw]
    BY <1>2 DEF Share
  <2>3. high = IF 0 >= rw - wk THEN 0 ELSE rw - wk
    <3> HIDE DEF rw, wk
    <3> QED
      BY <2>1, TwoMax
  <2>4. high \in 0..kw
    <3> HIDE DEF rw, wk, kw, high
    <3> QED
      BY <2>1, <2>3
  <2> HIDE DEF high
  <2>5. /\ Share(right, wrong, k, w).n = high
        /\ Share(right, wrong, k, w).d = kw
    BY <2>2
  <2>6. high = IF rw <= wk THEN 0 ELSE rw - wk
    <3> HIDE DEF rw, wk
    <3> QED
      BY <2>1, <2>3
  <2> QED
    BY <1>2, <2>1, <2>4, <2>5, <2>6 DEF SharedOut
<1> QED
  BY <1>1, <1>2

\* One right option more gains, one wrong option more loses, if anything.
LEMMA ShareFollows ==
    ASSUME NEW right \in Nat, NEW wrong \in Nat, NEW k \in Nat \ {0}, NEW w \in Nat,
           NEW s, SharedOut(s, right, wrong, k, w)
    PROVE  /\ \A t : SharedOut(t, right + 1, wrong, k, w) => AtMost(s, t)
           /\ \A t : SharedOut(t, right, wrong + 1, k, w) => AtMost(t, s)
<1> DEFINE rw == right * w
           wk == wrong * k
           kw == k * w
<1>1. rw \in Nat /\ wk \in Nat /\ kw \in Nat
  OBVIOUS
<1>2. (right + 1) * w = rw + w /\ (wrong + 1) * k = wk + k
  OBVIOUS
<1>3. /\ s.d \in Nat /\ s.n \in Nat
      /\ w = 0 => s.d = k /\ s.n = right
      /\ w # 0 => s.d = kw /\ s.n = IF rw <= wk THEN 0 ELSE rw - wk
  BY DEF SharedOut
<1>4. ASSUME NEW t, SharedOut(t, right + 1, wrong, k, w) PROVE AtMost(s, t)
  <2>1. /\ t.d \in Nat /\ t.n \in Nat
        /\ w = 0 => t.d = k /\ t.n = right + 1
        /\ w # 0 => t.d = kw /\ t.n = IF rw + w <= wk THEN 0 ELSE rw + w - wk
    BY <1>2, <1>4 DEF SharedOut
  <2> HIDE DEF rw, wk, kw
  <2>2. s.n <= t.n /\ s.d = t.d
    BY <1>1, <1>3, <2>1
  <2>3. s.n * t.d <= t.n * t.d
    BY <1>3, <2>1, <2>2, ProductGrows
  <2> QED
    BY <2>2, <2>3 DEF AtMost
<1>5. ASSUME NEW t, SharedOut(t, right, wrong + 1, k, w) PROVE AtMost(t, s)
  <2>1. /\ t.d \in Nat /\ t.n \in Nat
        /\ w = 0 => t.d = k /\ t.n = right
        /\ w # 0 => t.d = kw /\ t.n = IF rw <= wk + k THEN 0 ELSE rw - (wk + k)
    BY <1>2, <1>5 DEF SharedOut
  <2> HIDE DEF rw, wk, kw
  <2>2. t.n <= s.n /\ s.d = t.d
    BY <1>1, <1>3, <2>1
  <2>3. t.n * s.d <= s.n * s.d
    BY <1>3, <2>1, <2>2, ProductGrows
  <2> QED
    BY <2>2, <2>3 DEF AtMost
<1> QED
  BY <1>4, <1>5

-----------------------------------------------------------------------------
\* The points of the last answer.
Answered ==
    /\ key \in [correct : SUBSET Options,
                options : (1..Cardinality(Options)) \cup {Null}]
    /\ given \in SUBSET Options
    /\ outcome = Grader(given, key)

LEMMA AnswersAreGraded == MarkingSpec => []Answered
<1>1. MarkingInit => Answered
  BY DEF MarkingInit, Answered
<1>2. Answered /\ [SaveScheme \/ GradeAnswer]_markingVars => Answered'
  <2> SUFFICES ASSUME Answered, [SaveScheme \/ GradeAnswer]_markingVars
               PROVE  Answered'
    OBVIOUS
  <2>1. CASE SaveScheme
    BY <2>1 DEF SaveScheme, Answered
  <2>2. CASE GradeAnswer
    BY <2>2 DEF GradeAnswer, Answered, Keys
  <2>3. CASE UNCHANGED markingVars
    BY <2>3 DEF markingVars, Answered
  <2> QED
    BY <2>1, <2>2, <2>3
<1> QED
  BY <1>1, <1>2, PTL DEF MarkingSpec

LEMMA SubsetsCount ==
    ASSUME NEW S, IsFiniteSet(S), NEW T, T \subseteq S
    PROVE  /\ IsFiniteSet(T) /\ Cardinality(T) \in Nat
           /\ Cardinality(T) <= Cardinality(S)
  BY FS_Subset, FS_CardinalityType

LEMMA OneMoreCounts ==
    ASSUME NEW T, IsFiniteSet(T), NEW x, x \notin T
    PROVE  /\ Cardinality(T \cup {x}) = Cardinality(T) + 1
           /\ IsFiniteSet(T \cup {x})
  BY FS_AddElement

\* What the grader reads off a usable key and an answer.
LEMMA GraderIs ==
    ASSUME NEW k \in [correct : SUBSET Options,
                      options : (1..Cardinality(Options)) \cup {Null}],
           ~Unusable(k), NEW answer \in SUBSET Options
    PROVE  /\ Cardinality(k.correct) \in Nat \ {0}
           /\ k.options - Cardinality(k.correct) \in Nat
           /\ Cardinality(answer \cap k.correct) \in Nat
           /\ Cardinality(answer \ k.correct) \in Nat
           /\ Cardinality(answer \cap k.correct) <= Cardinality(k.correct)
           /\ Grader(answer, k).correct = (answer = k.correct)
           /\ Grader(answer, k).points =
                Share(Cardinality(answer \cap k.correct), Cardinality(answer \ k.correct),
                      Cardinality(k.correct), k.options - Cardinality(k.correct))
<1>1. k.correct \subseteq Options /\ k.correct # {} /\ k.options # Null
  BY DEF Unusable
<1>2. IsFiniteSet(Options)
  BY MarkingAssumption
<1>3. IsFiniteSet(k.correct) /\ Cardinality(k.correct) \in Nat
  BY <1>1, <1>2, SubsetsCount
<1>4. Cardinality(k.correct) # 0
  BY <1>1, <1>3, FS_EmptySet
<1>5. /\ Cardinality(answer \cap k.correct) \in Nat
      /\ Cardinality(answer \cap k.correct) <= Cardinality(k.correct)
  <2>1. answer \cap k.correct \subseteq k.correct
    OBVIOUS
  <2> QED
    BY <1>3, <2>1, SubsetsCount
<1>6. Cardinality(answer \ k.correct) \in Nat
  <2>1. answer \ k.correct \subseteq Options
    OBVIOUS
  <2> QED
    BY <1>2, <2>1, SubsetsCount
<1>7. k.options \in Nat /\ ~(Cardinality(k.correct) > k.options)
  <2>1. Cardinality(Options) \in Nat
    BY <1>2, FS_CardinalityType
  <2> QED
    BY <1>1, <2>1 DEF Unusable
<1>8. k.options - Cardinality(k.correct) \in Nat
  BY <1>3, <1>7
<1>9. Grader(answer, k) =
        [points |-> Share(Cardinality(answer \cap k.correct), Cardinality(answer \ k.correct),
                          Cardinality(k.correct), k.options - Cardinality(k.correct)),
         correct |-> answer = k.correct]
  BY DEF Grader
<1>10. Grader(answer, k).points =
         Share(Cardinality(answer \cap k.correct), Cardinality(answer \ k.correct),
               Cardinality(k.correct), k.options - Cardinality(k.correct))
  BY <1>9
<1>11. Grader(answer, k).correct = (answer = k.correct)
  BY <1>9
<1> QED
  BY <1>3, <1>4, <1>5, <1>6, <1>8, <1>10, <1>11

LEMMA UnusableIsNothing ==
    ASSUME NEW k, Unusable(k), NEW answer
    PROVE  /\ Grader(answer, k).points.n = 0 /\ Grader(answer, k).points.d = 1
           /\ Grader(answer, k).correct # TRUE
<1>1. Grader(answer, k) = [points |-> [n |-> 0, d |-> 1], correct |-> Null]
  BY DEF Grader
<1>2. /\ Grader(answer, k).points.n = 0 /\ Grader(answer, k).points.d = 1
      /\ Grader(answer, k).correct = Null
  BY <1>1
<1> QED
  BY <1>2, MarkingAssumption

LEMMA AnswersFair ==
    ASSUME NEW k \in [correct : SUBSET Options,
                      options : (1..Cardinality(Options)) \cup {Null}],
           ~Unusable(k), NEW answer \in SUBSET Options, NEW x \in Options \ answer
    PROVE  LET more == Grader(answer \cup {x}, k).points
               less == Grader(answer, k).points
           IN  IF x \in k.correct THEN AtMost(less, more) ELSE AtMost(more, less)
<1> DEFINE right == Cardinality(answer \cap k.correct)
           wrong == Cardinality(answer \ k.correct)
           all == Cardinality(k.correct)
           rest == k.options - all
           wider == answer \cup {x}
<1>1. /\ right \in Nat /\ wrong \in Nat /\ all \in Nat \ {0} /\ rest \in Nat /\ right <= all
      /\ Grader(answer, k).points = Share(right, wrong, all, rest)
  BY GraderIs
<1>2. wider \in SUBSET Options
  OBVIOUS
<1>3. /\ Cardinality(wider \cap k.correct) <= all
      /\ Grader(wider, k).points =
           Share(Cardinality(wider \cap k.correct), Cardinality(wider \ k.correct), all, rest)
  <2> HIDE DEF wider
  <2> QED
    BY <1>2, GraderIs
<1>4. IsFiniteSet(answer \cap k.correct) /\ IsFiniteSet(answer \ k.correct)
  <2>1. answer \cap k.correct \subseteq Options /\ answer \ k.correct \subseteq Options
    OBVIOUS
  <2> QED
    BY <2>1, MarkingAssumption, SubsetsCount
<1>5. CASE x \in k.correct
  <2>1. /\ wider \cap k.correct = (answer \cap k.correct) \cup {x}
        /\ wider \ k.correct = answer \ k.correct
        /\ x \notin answer \cap k.correct
    BY <1>5
  <2>2. Cardinality(wider \cap k.correct) = right + 1
    BY <1>4, <2>1, OneMoreCounts
  <2>3. Cardinality(wider \ k.correct) = wrong
    BY <2>1
  <2>4. Grader(wider, k).points = Share(right + 1, wrong, all, rest) /\ right + 1 <= all
    BY <1>3, <2>2, <2>3
  <2> HIDE DEF right, wrong, all, rest
  <2>5. /\ SharedOut(Share(right, wrong, all, rest), right, wrong, all, rest)
        /\ SharedOut(Share(right + 1, wrong, all, rest), right + 1, wrong, all, rest)
    BY <1>1, <2>4, ShareIs
  <2>6. AtMost(Share(right, wrong, all, rest), Share(right + 1, wrong, all, rest))
    BY <1>1, <2>5, ShareFollows
  <2> QED
    BY <1>1, <1>5, <2>4, <2>6
<1>6. CASE x \notin k.correct
  <2>1. /\ wider \ k.correct = (answer \ k.correct) \cup {x}
        /\ wider \cap k.correct = answer \cap k.correct
        /\ x \notin answer \ k.correct
    BY <1>6
  <2>2. Cardinality(wider \ k.correct) = wrong + 1
    BY <1>4, <2>1, OneMoreCounts
  <2>3. Cardinality(wider \cap k.correct) = right
    BY <2>1
  <2>4. Grader(wider, k).points = Share(right, wrong + 1, all, rest)
    BY <1>3, <2>2, <2>3
  <2> HIDE DEF right, wrong, all, rest
  <2>5. /\ SharedOut(Share(right, wrong, all, rest), right, wrong, all, rest)
        /\ SharedOut(Share(right, wrong + 1, all, rest), right, wrong + 1, all, rest)
    BY <1>1, ShareIs
  <2>6. AtMost(Share(right, wrong + 1, all, rest), Share(right, wrong, all, rest))
    BY <1>1, <2>5, ShareFollows
  <2> QED
    BY <1>1, <1>6, <2>4, <2>6
<1> QED
  BY <1>5, <1>6

LEMMA AllRightIsAll ==
    ASSUME NEW k \in Nat \ {0}, NEW w \in Nat, NEW s, SharedOut(s, k, 0, k, w)
    PROVE  s.n = s.d
<1>1. k * w \in Nat /\ (w # 0 => k * w # 0) /\ 0 * k = 0
  OBVIOUS
<1> QED
  BY <1>1 DEF SharedOut

LEMMA GradedIsFair == Answered => SharesFair
<1> SUFFICES ASSUME Answered PROVE SharesFair
  OBVIOUS
<1>1. /\ key \in [correct : SUBSET Options,
                  options : (1..Cardinality(Options)) \cup {Null}]
      /\ given \in SUBSET Options
      /\ outcome = Grader(given, key)
  BY DEF Answered
<1>2. CASE Unusable(key)
  <2>1. outcome.points.n = 0 /\ outcome.points.d = 1 /\ outcome.correct # TRUE
    BY <1>1, <1>2, UnusableIsNothing
  <2>2. outcome.points.n \in 0..outcome.points.d
    BY <2>1
  <2>3. outcome.correct # TRUE
    BY <2>1
  <2> QED
    BY <1>2, <2>2, <2>3, Zenon DEF SharesFair
<1>3. CASE ~Unusable(key)
  <2> DEFINE right == Cardinality(given \cap key.correct)
             wrong == Cardinality(given \ key.correct)
             all == Cardinality(key.correct)
             rest == key.options - all
  <2>1. /\ right \in Nat /\ wrong \in Nat /\ all \in Nat \ {0} /\ rest \in Nat /\ right <= all
        /\ outcome.correct = (given = key.correct)
        /\ outcome.points = Share(right, wrong, all, rest)
    BY <1>1, <1>3, GraderIs
  <2>2. outcome.points.n \in 0..outcome.points.d
    <3> HIDE DEF right, wrong, all, rest
    <3>1. SharedOut(Share(right, wrong, all, rest), right, wrong, all, rest)
      BY <2>1, ShareIs
    <3> QED
      BY <2>1, <3>1 DEF SharedOut
  <2>3. ASSUME outcome.correct = TRUE PROVE outcome.points.n = outcome.points.d
    <3>1. given = key.correct
      BY <2>1, <2>3
    <3>2. given \cap key.correct = key.correct /\ given \ key.correct = {}
      BY <3>1
    <3>3. right = all /\ wrong = 0
      BY <3>2, FS_EmptySet
    <3> HIDE DEF right, wrong, all, rest
    <3>4. SharedOut(Share(all, 0, all, rest), all, 0, all, rest)
      BY <2>1, ShareIs
    <3> QED
      BY <2>1, <3>3, <3>4, AllRightIsAll
  <2>4. \A x \in Options \ given :
          LET more == Grader(given \cup {x}, key).points
          IN  IF x \in key.correct THEN AtMost(outcome.points, more)
              ELSE AtMost(more, outcome.points)
    BY <1>1, <1>3, AnswersFair
  <2> QED
    BY <2>2, <2>3, <2>4 DEF SharesFair
<1> QED
  BY <1>2, <1>3

-----------------------------------------------------------------------------
(***************************************************************************)
(* Scores: the fractions that a platform adds up.  As MapThenSumSet in     *)
(* Sums, with Plus for the addition.                                       *)
(***************************************************************************)

Nil == Fraction(0, 1)

AddedUp(w, S) == FoldSet(LAMBDA x, sum : Plus(w[x], sum), Fraction(0, 1), S)

Gathers(g, w, S) ==
    g = [s \in SUBSET S |-> IF s = {} THEN Nil ELSE Plus(w[Taken(s)], g[s \ {Taken(s)}])]

LEMMA AddedUpUnfolds ==
    ASSUME NEW w, NEW S
    PROVE  AddedUp(w, S) = (CHOOSE g : Gathers(g, w, S))[S]
  BY DEF AddedUp, FoldSet, MapThenFoldSet, Gathers, Taken, Nil

\* Unrolled once.
LEMMA GathersAt ==
    ASSUME NEW w, NEW S, NEW g, Gathers(g, w, S), NEW s \in SUBSET S
    PROVE  g[s] = IF s = {} THEN Nil ELSE Plus(w[Taken(s)], g[s \ {Taken(s)}])
  BY DEF Gathers

\* The function depends on the weights of the elements only, and on a part
\* of the set it is the function of that part.
LEMMA GathersAgree ==
    ASSUME NEW S, IsFiniteSet(S), NEW T \in SUBSET S, NEW w,
           NEW g, Gathers(g, w, S), NEW h, Gathers(h, w, T), NEW s \in SUBSET T
    PROVE  g[s] = h[s]
<1> DEFINE Bad == {t \in SUBSET T : g[t] # h[t]}
<1>1. SUFFICES ASSUME Bad # {} PROVE FALSE
  OBVIOUS
<1>2. IsFiniteSet(T)
  BY FS_Subset
<1>3. PICK t \in Bad : \A u \in Bad : ~(u \subseteq t /\ u # t)
  <2>1. Bad \subseteq SUBSET T
    OBVIOUS
  <2> HIDE DEF Bad
  <2> QED
    BY <1>1, <1>2, <2>1, SmallestSet
<1>4. t \in SUBSET T /\ t \in SUBSET S
  OBVIOUS
<1>5. /\ g[t] = IF t = {} THEN Nil ELSE Plus(w[Taken(t)], g[t \ {Taken(t)}])
      /\ h[t] = IF t = {} THEN Nil ELSE Plus(w[Taken(t)], h[t \ {Taken(t)}])
  BY <1>4, GathersAt
<1>6. t # {}
  BY <1>3, <1>5
<1>7. Taken(t) \in t /\ Taken(t) \in T
  BY <1>4, <1>6, TakenIsIn
<1>8. t \ {Taken(t)} \notin Bad
  BY <1>3, <1>7
<1>9. g[t \ {Taken(t)}] = h[t \ {Taken(t)}]
  BY <1>4, <1>8
<1> QED
  BY <1>3, <1>5, <1>6, <1>7, <1>9

\* There is such a function.
LEMMA GathersExists ==
    ASSUME NEW w, NEW S, IsFiniteSet(S)
    PROVE  \E g : Gathers(g, w, S)
<1> DEFINE Bad == {T \in SUBSET S : ~\E g : Gathers(g, w, T)}
<1>1. SUFFICES ASSUME Bad # {} PROVE FALSE
  OBVIOUS
<1>2. PICK T \in Bad : \A U \in Bad : ~(U \subseteq T /\ U # T)
  <2>1. Bad \subseteq SUBSET S
    OBVIOUS
  <2> HIDE DEF Bad
  <2> QED
    BY <1>1, <2>1, SmallestSet
<1>3. T \in SUBSET S /\ IsFiniteSet(T) /\ ~\E g : Gathers(g, w, T)
  BY FS_Subset
<1> DEFINE Some(U) == CHOOSE g : Gathers(g, w, U)
<1>4. ASSUME NEW U \in SUBSET T, U # T
      PROVE  Gathers(Some(U), w, U)
  <2>1. U \notin Bad
    BY <1>2, <1>4
  <2>2. \E g : Gathers(g, w, U)
    BY <1>3, <2>1
  <2> QED
    BY <2>2, Zenon
<1> DEFINE sums == [U \in SUBSET T |-> Some(U)[U]]
           h == [s \in SUBSET T |->
                    IF s = {} THEN Nil ELSE Plus(w[Taken(s)], sums[s \ {Taken(s)}])]
<1> HIDE DEF Some, Bad
<1>5. ASSUME NEW s \in SUBSET T, s # T
      PROVE  h[s] = sums[s]
  <2>1. Gathers(Some(s), w, s) /\ sums[s] = Some(s)[s]
    BY <1>4, <1>5
  <2>2. Some(s)[s] = IF s = {} THEN Nil ELSE Plus(w[Taken(s)], Some(s)[s \ {Taken(s)}])
    BY <2>1, GathersAt
  <2>3. CASE s = {}
    BY <2>1, <2>2, <2>3
  <2>4. CASE s # {}
    <3> DEFINE u == s \ {Taken(s)}
    <3>1. Taken(s) \in s
      BY <2>4, TakenIsIn
    <3>2. u \in SUBSET T /\ u # T /\ u \in SUBSET s /\ IsFiniteSet(s)
      BY <1>3, <3>1, FS_Subset
    <3> HIDE DEF u
    <3>3. Gathers(Some(u), w, u)
      BY <1>4, <3>2
    <3>4. Some(s)[u] = Some(u)[u]
      BY <2>1, <3>2, <3>3, GathersAgree
    <3>5. sums[u] = Some(u)[u]
      BY <3>2
    <3>6. Some(s)[s] = Plus(w[Taken(s)], Some(s)[u])
      BY <2>2, <2>4 DEF u
    <3>7. h[s] = Plus(w[Taken(s)], sums[u])
      BY <2>4 DEF u
    <3> QED
      BY <2>1, <3>4, <3>5, <3>6, <3>7
  <2> QED
    BY <2>3, <2>4
<1>6. ASSUME NEW s \in SUBSET T
      PROVE  h[s] = IF s = {} THEN Nil ELSE Plus(w[Taken(s)], h[s \ {Taken(s)}])
  <2>1. CASE s = {}
    BY <2>1
  <2>2. CASE s # {}
    <3>1. Taken(s) \in s
      BY <2>2, TakenIsIn
    <3>2. s \ {Taken(s)} \in SUBSET T /\ s \ {Taken(s)} # T
      BY <3>1
    <3>3. h[s \ {Taken(s)}] = sums[s \ {Taken(s)}]
      BY <1>5, <3>2
    <3>4. h[s] = Plus(w[Taken(s)], sums[s \ {Taken(s)}])
      BY <2>2
    <3> HIDE DEF h, sums
    <3> QED
      BY <2>2, <3>3, <3>4
  <2> QED
    BY <2>1, <2>2
<1>7. h = [s \in SUBSET T |-> h[s]]
  OBVIOUS
<1> HIDE DEF h
<1>8. Gathers(h, w, T)
  BY <1>6, <1>7 DEF Gathers
<1> QED
  BY <1>3, <1>8

\* The total is what any such function gives for the whole set.
LEMMA AddedUpIs ==
    ASSUME NEW w, NEW S, IsFiniteSet(S), NEW g, Gathers(g, w, S)
    PROVE  AddedUp(w, S) = g[S]
<1> DEFINE f == CHOOSE h : Gathers(h, w, S)
<1>1. Gathers(f, w, S)
  BY Zenon
<1>2. AddedUp(w, S) = f[S]
  BY AddedUpUnfolds
<1> HIDE DEF f
<1>3. f[S] = g[S]
  BY <1>1, GathersAgree
<1> QED
  BY <1>2, <1>3

\* Unrolled once, in terms of what is added up.
LEMMA AddedUpTakes ==
    ASSUME NEW S, IsFiniteSet(S), NEW w
    PROVE  AddedUp(w, S) = IF S = {} THEN Nil
                           ELSE Plus(w[Taken(S)], AddedUp(w, S \ {Taken(S)}))
<1> DEFINE T == S \ {Taken(S)}
<1>1. PICK g : Gathers(g, w, S)
  BY GathersExists
<1>2. IsFiniteSet(T) /\ T \in SUBSET S /\ T \in SUBSET T
  BY FS_Subset
<1>3. PICK h : Gathers(h, w, T)
  BY <1>2, GathersExists
<1>4. g[T] = h[T]
  <2> HIDE DEF T
  <2> QED
    BY <1>1, <1>2, <1>3, GathersAgree
<1>5. AddedUp(w, S) = g[S] /\ AddedUp(w, T) = h[T]
  BY <1>1, <1>2, <1>3, AddedUpIs
<1>6. g[S] = IF S = {} THEN Nil ELSE Plus(w[Taken(S)], g[T])
  BY <1>1 DEF Gathers
<1> QED
  BY <1>4, <1>5, <1>6

LEMMA OneMoreAdds ==
    ASSUME NEW j \in Nat, NEW k \in Nat, NEW up \in Int, NEW down \in Int
    PROVE  /\ j * up - k * down \in Int /\ -down \in Int
           /\ (j + 1) * up - k * down = (j * up - k * down) + up
           /\ j * up - (k + 1) * down = (j * up - k * down) + (-down)
<1>1. j * up \in Int /\ k * down \in Int
  OBVIOUS
<1>2. (j + 1) * up = j * up + up /\ (k + 1) * down = k * down + down
  OBVIOUS
<1> QED
  BY <1>1, <1>2

\* The fraction f is value parts of whole.
Amounts(f, value, whole) ==
    f.d \in Nat \ {0} /\ f.n \in Int /\ f.n * whole = value * f.d

\* Fractions that are up parts for the right ones and less down parts for the
\* others add up to the number of the right ones times up less the number of
\* the others times down.
LEMMA AddedUpCounts ==
    ASSUME NEW S, IsFiniteSet(S), NEW w, NEW right, NEW whole \in Nat \ {0},
           NEW up \in Int, NEW down \in Int,
           \A x \in S : x \in right => Amounts(w[x], up, whole),
           \A x \in S : x \notin right => Amounts(w[x], -down, whole)
    PROVE  /\ AddedUp(w, S) = Fraction(AddedUp(w, S).n, AddedUp(w, S).d)
           /\ Amounts(AddedUp(w, S), Cardinality(S \cap right) * up
                                     - Cardinality(S \ right) * down, whole)
<1> DEFINE Value(T) == Cardinality(T \cap right) * up - Cardinality(T \ right) * down
           Good(T) == /\ AddedUp(w, T) = Fraction(AddedUp(w, T).n, AddedUp(w, T).d)
                      /\ Amounts(AddedUp(w, T), Value(T), whole)
           Bad == {T \in SUBSET S : ~Good(T)}
<1>1. SUFFICES ASSUME Bad # {} PROVE FALSE
  OBVIOUS
<1>2. PICK T \in Bad : \A U \in Bad : ~(U \subseteq T /\ U # T)
  <2>1. Bad \subseteq SUBSET S
    OBVIOUS
  <2> HIDE DEF Bad
  <2> QED
    BY <1>1, <2>1, SmallestSet
<1>3. T \in SUBSET S /\ ~Good(T)
  OBVIOUS
<1>4. IsFiniteSet(T)
  BY <1>3, FS_Subset
<1>5. CASE T = {}
  <2>1. AddedUp(w, T) = Nil
    BY <1>4, <1>5, AddedUpTakes
  <2>2. T \cap right = {} /\ T \ right = {}
    BY <1>5
  <2>3. Value(T) = 0
    <3>1. Cardinality(T \cap right) = 0 /\ Cardinality(T \ right) = 0
      BY <2>2, FS_EmptySet
    <3> QED
      BY <3>1
  <2> HIDE DEF Value
  <2>4. /\ AddedUp(w, T).n = 0 /\ AddedUp(w, T).d = 1
        /\ AddedUp(w, T) = Fraction(AddedUp(w, T).n, AddedUp(w, T).d)
    BY <2>1 DEF Nil, Fraction
  <2>5. Amounts(AddedUp(w, T), Value(T), whole)
    BY <2>3, <2>4 DEF Amounts
  <2> QED
    BY <1>3, <2>4, <2>5
<1>6. CASE T # {}
  <2> DEFINE x == Taken(T)
             U == T \ {x}
             t == AddedUp(w, T)
             u == AddedUp(w, U)
             v == IF x \in right THEN up ELSE -down
  <2>1. x \in T /\ x \in S
    BY <1>3, <1>6, TakenIsIn
  <2>2. t = Plus(w[x], u)
    BY <1>4, <1>6, AddedUpTakes
  <2>3. Good(U)
    <3>1. U \in SUBSET S /\ U \subseteq T /\ U # T
      BY <1>3, <2>1
    <3>2. U \notin Bad
      <4> HIDE DEF Bad, U
      <4> QED
        BY <1>2, <3>1
    <3> HIDE DEF U, Good
    <3> QED
      BY <3>1, <3>2
  <2>4. IsFiniteSet(U) /\ IsFiniteSet(U \cap right) /\ IsFiniteSet(U \ right)
    BY <1>4, FS_Subset
  <2>5. /\ Cardinality(U \cap right) \in Nat /\ Cardinality(U \ right) \in Nat
    <3> HIDE DEF U
    <3> QED
      BY <2>4, FS_CardinalityType
  <2>6. Value(T) = Value(U) + v /\ Value(U) \in Int /\ v \in Int
    <3>1. CASE x \in right
      <4>1. /\ T \cap right = (U \cap right) \cup {x} /\ x \notin U \cap right
            /\ T \ right = U \ right
        BY <2>1, <3>1
      <4>2. Cardinality(T \cap right) = Cardinality(U \cap right) + 1
        <5> HIDE DEF x, U
        <5> QED
          BY <2>4, <4>1, OneMoreCounts
      <4>3. Cardinality(T \ right) = Cardinality(U \ right)
        BY <4>1
      <4>4. v = up
        BY <3>1
      <4> HIDE DEF x, U, v
      <4>5. Value(T) = (Cardinality(U \cap right) + 1) * up - Cardinality(U \ right) * down
        BY <4>2, <4>3, Zenon
      <4>6. /\ (Cardinality(U \cap right) + 1) * up - Cardinality(U \ right) * down
                = Value(U) + up
            /\ Value(U) \in Int /\ up \in Int
        BY <2>5, OneMoreAdds
      <4> HIDE DEF Value
      <4> QED
        BY <4>4, <4>5, <4>6
    <3>2. CASE x \notin right
      <4>1. /\ T \ right = (U \ right) \cup {x} /\ x \notin U \ right
            /\ T \cap right = U \cap right
        BY <2>1, <3>2
      <4>2. Cardinality(T \ right) = Cardinality(U \ right) + 1
        <5> HIDE DEF x, U
        <5> QED
          BY <2>4, <4>1, OneMoreCounts
      <4>3. Cardinality(T \cap right) = Cardinality(U \cap right)
        BY <4>1
      <4>4. v = -down
        BY <3>2
      <4> HIDE DEF x, U, v
      <4>5. Value(T) = Cardinality(U \cap right) * up - (Cardinality(U \ right) + 1) * down
        BY <4>2, <4>3, Zenon
      <4>6. /\ Cardinality(U \cap right) * up - (Cardinality(U \ right) + 1) * down
                = Value(U) + (-down)
            /\ Value(U) \in Int /\ -down \in Int
        BY <2>5, OneMoreAdds
      <4> HIDE DEF Value
      <4> QED
        BY <4>4, <4>5, <4>6
    <3> QED
      BY <3>1, <3>2
  <2>7. /\ u = Fraction(u.n, u.d) /\ u.d \in Nat \ {0} /\ u.n \in Int
        /\ u.n * whole = Value(U) * u.d
    BY <2>3 DEF Amounts
  <2>8. /\ w[x].d \in Nat \ {0} /\ w[x].n \in Int
        /\ w[x].n * whole = v * w[x].d
    <3>1. Amounts(w[x], v, whole)
      BY <2>1
    <3> QED
      BY <3>1 DEF Amounts
  <2>9. t = Fraction(w[x].n * u.d + u.n * w[x].d, w[x].d * u.d)
    BY <2>2 DEF Plus
  <2>10. /\ t.n = w[x].n * u.d + u.n * w[x].d /\ t.d = w[x].d * u.d
         /\ t = Fraction(t.n, t.d)
    <3> HIDE DEF t, u, x
    <3> QED
      BY <2>9 DEF Fraction
  <2> HIDE DEF t, u, x, U, v, Value
  <2> DEFINE wn == w[x].n
             wd == w[x].d
             un == u.n
             ud == u.d
             vu == Value(U)
  <2>11. /\ wd \in Nat \ {0} /\ wn \in Int /\ ud \in Nat \ {0} /\ un \in Int
         /\ vu \in Int /\ v \in Int
         /\ wn * whole = v * wd /\ un * whole = vu * ud
    BY <2>6, <2>7, <2>8
  <2>12. t.n = wn * ud + un * wd /\ t.d = wd * ud
    BY <2>10
  <2>13. Value(T) = vu + v
    BY <2>6
  <2> HIDE DEF wn, wd, un, ud, vu
  <2>14. t.d \in Nat \ {0} /\ t.n \in Int
    BY <2>11, <2>12
  <2>15. t.n * whole = Value(T) * t.d
    <3>1. t.n * whole = (wn * whole) * ud + (un * whole) * wd
      BY <2>11, <2>12
    <3>2. t.n * whole = (v * wd) * ud + (vu * ud) * wd
      BY <2>11, <3>1
    <3>3. (v * wd) * ud + (vu * ud) * wd = (vu + v) * (wd * ud)
      BY <2>11
    <3> QED
      BY <2>12, <2>13, <3>2, <3>3
  <2>16. Amounts(t, Value(T), whole)
    BY <2>14, <2>15 DEF Amounts
  <2> QED
    BY <1>3, <2>10, <2>16 DEF t
<1> QED
  BY <1>5, <1>6

-----------------------------------------------------------------------------
(***************************************************************************)
(* Scores: the platforms and the grader                                    *)
(***************************************************************************)

\* What is added up gives nothing less than nothing.
LEMMA PlatformIs ==
    ASSUME NEW w, NEW answer, NEW t, t = AddedUp(w, answer),
           t = Fraction(t.n, t.d), t.n \in Int
    PROVE  /\ PlatformShare(w, answer).d = t.d
           /\ PlatformShare(w, answer).n = IF t.n <= 0 THEN 0 ELSE t.n
<1>1. PlatformShare(w, answer) = [t EXCEPT !.n = Max({0, t.n})]
  BY DEF PlatformShare, AddedUp
<1>2. Max({0, t.n}) = IF t.n <= 0 THEN 0 ELSE t.n
  BY TwoMax
<1>3. /\ PlatformShare(w, answer).n = Max({0, t.n})
      /\ PlatformShare(w, answer).d = t.d
  BY <1>1 DEF Fraction
<1> QED
  BY <1>2, <1>3

-----------------------------------------------------------------------------
\* A choice of one, and true or false: an option counts all or nothing.
LEMMA OneScores ==
    ASSUME NEW q, IsFiniteSet(q.listed), q.correct \subseteq q.listed,
           q.type # "multiple_choice", NEW y, q.correct = {y},
           NEW answer, answer \subseteq q.listed, answer = {} \/ \E x : answer = {x},
           NEW w, \A x \in q.listed :
               w[x] = Fraction(IF x \in q.correct THEN 1 ELSE 0, 1)
    PROVE  PlatformShare(w, answer).n * GraderShare(q, answer).d
             = GraderShare(q, answer).n * PlatformShare(w, answer).d
<1>1. IsFiniteSet(answer)
  BY FS_Subset
<1> PICK zero \in Int : zero = 0
  OBVIOUS
<1>2. ASSUME NEW x \in answer
      PROVE  /\ x \in q.correct => Amounts(w[x], 1, 1)
             /\ x \notin q.correct => Amounts(w[x], -zero, 1)
  <2>1. ASSUME x \in q.correct PROVE Amounts(w[x], 1, 1)
    <3>1. w[x] = Fraction(1, 1)
      BY <1>2, <2>1
    <3>2. w[x].n = 1 /\ w[x].d = 1
      BY <3>1 DEF Fraction
    <3> QED
      BY <3>2 DEF Amounts
  <2>2. ASSUME x \notin q.correct PROVE Amounts(w[x], -zero, 1)
    <3>1. w[x] = Fraction(0, 1)
      BY <1>2, <2>2
    <3>2. w[x].n = 0 /\ w[x].d = 1
      BY <3>1 DEF Fraction
    <3>3. (-zero) * 1 = 0 /\ 0 * 1 = 0
      OBVIOUS
    <3> QED
      BY <3>2, <3>3 DEF Amounts
  <2> QED
    BY <2>1, <2>2
<1> DEFINE t == AddedUp(w, answer)
           right == Cardinality(answer \cap q.correct)
           wrong == Cardinality(answer \ q.correct)
<1>3. /\ t = Fraction(t.n, t.d)
      /\ Amounts(t, right * 1 - wrong * zero, 1)
  <2>1. 1 \in Nat \ {0} /\ 1 \in Int
    OBVIOUS
  <2> QED
    BY <1>1, <1>2, <2>1, AddedUpCounts
<1>4. IsFiniteSet(answer \ q.correct)
  BY <1>1, FS_Subset
<1>5. wrong \in Nat
  BY <1>4, FS_CardinalityType
<1>6. GraderShare(q, answer) = Fraction(IF answer = q.correct /\ answer # {} THEN 1 ELSE 0, 1)
  BY DEF GraderShare
<1>7. CASE answer = q.correct
  <2>1. answer \cap q.correct = {y} /\ answer # {}
    BY <1>7
  <2>2. right = 1
    BY <2>1, FS_Singleton
  <2>3. GraderShare(q, answer).n = 1 /\ GraderShare(q, answer).d = 1
    BY <1>6, <1>7, <2>1 DEF Fraction
  <2> HIDE DEF t, right, wrong
  <2>4. t.n = t.d /\ t.d \in Nat \ {0} /\ t.n \in Int
    BY <1>3, <1>5, <2>2 DEF Amounts
  <2>5. PlatformShare(w, answer).d = t.d /\ PlatformShare(w, answer).n = t.d
    BY <1>3, <2>4, PlatformIs DEF t
  <2> QED
    BY <2>3, <2>4, <2>5
<1>8. CASE answer # q.correct
  <2>1. answer \cap q.correct = {}
    BY <1>8
  <2>2. right = 0
    BY <2>1, FS_EmptySet
  <2>3. GraderShare(q, answer).n = 0 /\ GraderShare(q, answer).d = 1
    BY <1>6, <1>8 DEF Fraction
  <2> HIDE DEF t, right, wrong
  <2>4. t.n = 0 /\ t.d \in Nat \ {0} /\ t.n \in Int
    BY <1>3, <1>5, <2>2 DEF Amounts
  <2>5. PlatformShare(w, answer).d = t.d /\ PlatformShare(w, answer).n = 0
    BY <1>3, <2>4, PlatformIs DEF t
  <2> QED
    BY <2>3, <2>4, <2>5
<1> QED
  BY <1>7, <1>8

\* Several: a right option adds its part of the right ones, a wrong one takes
\* its part of the wrong ones away.
LEMMA SeveralScores ==
    ASSUME NEW q, q.type = "multiple_choice", q.listed \subseteq Options,
           q.correct \subseteq q.listed, q.correct # {},
           NEW answer, answer \subseteq q.listed,
           NEW w, \A x \in q.listed : w[x] = SeveralFraction(q, x)
    PROVE  PlatformShare(w, answer).n * GraderShare(q, answer).d
             = GraderShare(q, answer).n * PlatformShare(w, answer).d
<1> DEFINE k == [correct |-> q.correct, options |-> Cardinality(q.listed)]
           right == Cardinality(answer \cap q.correct)
           wrong == Cardinality(answer \ q.correct)
           all == Cardinality(q.correct)
           rest == Cardinality(q.listed \ q.correct)
           s == GraderShare(q, answer)
           t == AddedUp(w, answer)
<1>1. IsFiniteSet(q.listed) /\ IsFiniteSet(answer) /\ IsFiniteSet(q.listed \ q.correct)
  BY MarkingAssumption, FS_Subset
<1>2. /\ Cardinality(q.listed) \in Nat /\ Cardinality(Options) \in Nat
      /\ Cardinality(q.listed) <= Cardinality(Options)
      /\ all \in Nat /\ all <= Cardinality(q.listed)
      /\ rest \in Nat
  <2>1. IsFiniteSet(Options)
    BY MarkingAssumption
  <2> QED
    BY <1>1, <2>1, SubsetsCount, FS_CardinalityType
<1>3. all # 0
  <2>1. IsFiniteSet(q.correct)
    BY <1>1, FS_Subset
  <2> QED
    BY <2>1, FS_EmptySet
<1>4. rest = Cardinality(q.listed) - all
  <2>1. Cardinality(q.listed \ q.correct)
          = Cardinality(q.listed) - Cardinality(q.listed \cap q.correct)
    BY <1>1, FS_Difference
  <2>2. q.listed \cap q.correct = q.correct
    OBVIOUS
  <2> QED
    BY <2>1, <2>2
<1>5. /\ k \in [correct : SUBSET Options,
                options : (1..Cardinality(Options)) \cup {Null}]
      /\ k.correct = q.correct /\ k.options = Cardinality(q.listed)
  <2>1. Cardinality(q.listed) \in 1..Cardinality(Options)
    BY <1>2, <1>3
  <2> QED
    BY <2>1
<1>6. ~Unusable(k)
  <2>1. k.options # Null
    BY <1>2, <1>5, MarkingAssumption
  <2>2. ~(Cardinality(k.correct) > k.options)
    BY <1>2, <1>5
  <2> HIDE DEF k
  <2> QED
    BY <1>5, <2>1, <2>2 DEF Unusable
<1>7. /\ right \in Nat /\ wrong \in Nat /\ right <= all
      /\ s = Share(right, wrong, all, rest)
  <2>1. answer \in SUBSET Options
    OBVIOUS
  <2>2. s = Grader(answer, k).points
    BY DEF GraderShare
  <2> HIDE DEF k, s
  <2> QED
    BY <1>4, <1>5, <1>6, <2>1, <2>2, GraderIs
<1>8. SharedOut(s, right, wrong, all, rest)
  <2> HIDE DEF right, wrong, all, rest, s
  <2> QED
    BY <1>2, <1>3, <1>7, ShareIs
<1>9. ASSUME NEW x \in answer
      PROVE  /\ x \in q.correct => w[x].n = 1 /\ w[x].d = all
             /\ x \notin q.correct => w[x].n = -1 /\ w[x].d = rest /\ rest # 0
  <2>1. w[x] = SeveralFraction(q, x) /\ x \in q.listed
    BY <1>9
  <2>2. Right(q) = q.correct /\ Wrong(q) = q.listed \ q.correct
    BY DEF Right, Wrong
  <2>3. ASSUME x \in q.correct PROVE w[x].n = 1 /\ w[x].d = all
    <3>1. w[x] = [n |-> 1, d |-> all]
      BY <2>1, <2>2, <2>3 DEF SeveralFraction, Fraction
    <3> QED
      BY <3>1
  <2>4. ASSUME x \notin q.correct PROVE w[x].n = -1 /\ w[x].d = rest /\ rest # 0
    <3>1. w[x] = [n |-> -1, d |-> rest]
      BY <2>1, <2>2, <2>4 DEF SeveralFraction, Fraction
    <3>2. q.listed \ q.correct # {}
      BY <2>1, <2>4
    <3>3. rest # 0
      BY <1>1, <3>2, FS_EmptySet
    <3> QED
      BY <3>1, <3>3
  <2> QED
    BY <2>3, <2>4
<1> DEFINE part == IF rest = 0 THEN 1 ELSE rest
           whole == all * part
<1>10. part \in Nat \ {0} /\ whole \in Nat \ {0} /\ all \in Nat \ {0}
  <2> HIDE DEF all, rest
  <2> QED
    BY <1>2, <1>3
<1>11. ASSUME NEW x \in answer
       PROVE  /\ x \in q.correct => Amounts(w[x], part, whole)
              /\ x \notin q.correct => Amounts(w[x], -all, whole)
  <2>1. ASSUME x \in q.correct PROVE Amounts(w[x], part, whole)
    <3>1. w[x].n = 1 /\ w[x].d = all
      BY <1>9, <2>1
    <3> HIDE DEF all, rest, part
    <3>2. 1 * whole = part * all
      BY <1>10
    <3> QED
      BY <1>10, <3>1, <3>2 DEF Amounts
  <2>2. ASSUME x \notin q.correct PROVE Amounts(w[x], -all, whole)
    <3>1. w[x].n = -1 /\ w[x].d = rest /\ rest # 0
      BY <1>9, <2>2
    <3> HIDE DEF all, rest
    <3>2. part = rest
      BY <3>1
    <3>3. (-1) * whole = (-all) * rest
      BY <1>2, <1>10, <3>2
    <3> QED
      BY <1>2, <1>10, <3>1, <3>3 DEF Amounts
  <2> QED
    BY <2>1, <2>2
<1>12. /\ t = Fraction(t.n, t.d) /\ t.d \in Nat \ {0} /\ t.n \in Int
       /\ t.n * whole = (right * part - wrong * all) * t.d
  <2>1. part \in Int /\ all \in Int /\ whole \in Nat \ {0}
    BY <1>10
  <2> DEFINE value == right * part - wrong * all
  <2>2. t = Fraction(t.n, t.d) /\ Amounts(t, value, whole)
    <3> HIDE DEF part, all, rest, whole
    <3> QED
      BY <1>1, <1>11, <2>1, AddedUpCounts
  <2> HIDE DEF t, whole, value
  <2>3. t.d \in Nat \ {0} /\ t.n \in Int /\ t.n * whole = value * t.d
    BY <2>2 DEF Amounts
  <2> QED
    BY <2>2, <2>3 DEF value
<1>13. /\ PlatformShare(w, answer).d = t.d
       /\ PlatformShare(w, answer).n = IF t.n <= 0 THEN 0 ELSE t.n
  <2> HIDE DEF t
  <2> QED
    BY <1>12, PlatformIs DEF t
<1> DEFINE p == PlatformShare(w, answer)
<1> HIDE DEF right, all, rest, s, t, p
<1>14. CASE rest = 0
  <2>1. wrong = 0
    <3>1. answer \ q.correct = {}
      <4>1. \A x \in answer : x \in q.correct
        BY <1>9, <1>14
      <4> QED
        BY <4>1
    <3> QED
      BY <3>1, FS_EmptySet
  <2> HIDE DEF wrong
  <2>2. part = 1 /\ whole = all
    BY <1>10, <1>14
  <2> HIDE DEF part, whole
  <2>3. s.d = all /\ s.n = right
    BY <1>14, <1>8 DEF SharedOut
  <2>4. t.n * all = right * t.d
    BY <1>7, <1>10, <1>12, <2>1, <2>2
  <2>5. t.n >= 0
    <3> SUFFICES ASSUME t.n < 0 PROVE FALSE
      BY <1>12
    <3>1. t.n * all < 0 /\ right * t.d >= 0
      BY <1>7, <1>10, <1>12
    <3> QED
      BY <1>7, <1>10, <1>12, <2>4, <3>1
  <2>6. p.n = t.n /\ p.d = t.d
    BY <1>12, <1>13, <2>5 DEF p
  <2>7. p.n * s.d = s.n * p.d
    BY <2>3, <2>4, <2>6
  <2> QED
    BY <2>7 DEF p, s
<1>15. CASE rest # 0
  <2> HIDE DEF wrong
  <2>1. part = rest
    BY <1>15
  <2> DEFINE rw == right * rest
             wk == wrong * all
  <2>2. rw \in Nat /\ wk \in Nat
    BY <1>2, <1>7
  <2>3. s.d = whole /\ s.n = IF rw <= wk THEN 0 ELSE rw - wk
    BY <1>8, <1>15, <2>1 DEF SharedOut
  <2>4. t.n * whole = (rw - wk) * t.d
    BY <1>12, <2>1
  <2> HIDE DEF rw, wk, part, whole
  <2>5. CASE rw <= wk
    <3>1. t.n <= 0
      <4> SUFFICES ASSUME t.n > 0 PROVE FALSE
        BY <1>12
      <4>1. t.n * whole > 0 /\ (rw - wk) * t.d <= 0
        BY <1>10, <1>12, <2>2, <2>5
      <4> QED
        BY <1>10, <1>12, <2>2, <2>4, <4>1
    <3>2. p.n = 0 /\ s.n = 0 /\ s.d \in Int /\ p.d \in Int
      BY <1>10, <1>12, <1>13, <2>3, <2>5, <3>1 DEF p
    <3>3. p.n * s.d = s.n * p.d
      BY <3>2
    <3> QED
      BY <3>3 DEF p, s
  <2>6. CASE ~(rw <= wk)
    <3>1. t.n > 0
      <4> SUFFICES ASSUME t.n <= 0 PROVE FALSE
        BY <1>12
      <4>1. t.n * whole <= 0 /\ (rw - wk) * t.d > 0
        BY <1>10, <1>12, <2>2, <2>6
      <4> QED
        BY <1>10, <1>12, <2>2, <2>4, <4>1
    <3>2. p.n = t.n /\ s.n = rw - wk /\ s.d = whole /\ p.d = t.d
      BY <1>12, <1>13, <2>3, <2>6, <3>1 DEF p
    <3>3. p.n * s.d = s.n * p.d
      BY <2>4, <3>2
    <3> QED
      BY <3>3 DEF p, s
  <2> QED
    BY <2>5, <2>6
<1> QED
  BY <1>14, <1>15

\* The question is one of an exam; one option at most is ticked unless several
\* may be.
Quizzed ==
    /\ question \in Choice \cup Several \cup TrueFalse
    /\ ticked \subseteq question.listed
    /\ question.type # "multiple_choice" => ticked = {} \/ \E x : ticked = {x}

LEMMA TicksAreOptions == ExportSpec => []Quizzed
<1>1. ExportInit => Quizzed
  BY DEF ExportInit, Quizzed
<1>2. Quizzed /\ [Tick]_exportVars => Quizzed'
  <2> SUFFICES ASSUME Quizzed, [Tick]_exportVars
               PROVE  Quizzed'
    OBVIOUS
  <2>1. CASE Tick
    <3>1. PICK x \in question.listed \ ticked :
              ticked' = IF question.type = "multiple_choice" THEN ticked \cup {x} ELSE {x}
      BY <2>1 DEF Tick
    <3>2. question' = question
      BY <2>1 DEF Tick
    <3>3. ticked' \subseteq question.listed
      BY <3>1 DEF Quizzed
    <3>4. question.type # "multiple_choice" => \E y : ticked' = {y}
      BY <3>1
    <3> QED
      BY <3>2, <3>3, <3>4 DEF Quizzed
  <2>2. CASE UNCHANGED exportVars
    BY <2>2 DEF exportVars, Quizzed
  <2> QED
    BY <2>1, <2>2
<1> QED
  BY <1>1, <1>2, PTL DEF ExportSpec

\* What the platforms give for an option of a choice of one.
LEMMA ChoiceWeights ==
    ASSUME NEW q, q \in Choice \cup TrueFalse, ~Skipped(q), q.correct \subseteq q.listed,
           NEW x \in q.listed
    PROVE  /\ MoodleWeight(q, x) = Fraction(IF x \in q.correct THEN 1 ELSE 0, 1)
           /\ IliasWeight(q, x) = Fraction(IF x \in q.correct THEN 1 ELSE 0, 1)
           /\ \E y : q.correct = {y}
<1>1. Right(q) = q.correct /\ q.correct # {}
  BY DEF Right, Skipped
<1>2. PICK y : q.correct = {y}
  BY <1>1 DEF Choice, TrueFalse
<1>3. q.type # "multiple_choice"
  BY DEF Choice, TrueFalse
<1>4. MoodleWeight(q, x) = Fraction(IF x \in q.correct THEN 1 ELSE 0, 1)
  <2>1. CASE q \in Choice
    <3>1. q.type = "single_choice"
      BY <2>1 DEF Choice
    <3> QED
      BY <3>1 DEF MoodleWeight, ChoiceFraction
  <2>2. CASE q \in TrueFalse
    <3>1. /\ q.type = "true_false" /\ q.listed = {"true", "false"}
          /\ q.correct = {"true"} \/ q.correct = {"false"}
      BY <1>1, <2>2 DEF TrueFalse, Truths
    <3>2. MoodleWeight(q, x) = TruthFraction(q, x)
      BY <3>1 DEF MoodleWeight
    <3>3. ((x = "true") = ("true" \in q.correct)) <=> x \in q.correct
      BY <3>1
    <3> QED
      BY <3>2, <3>3 DEF TruthFraction
  <2> QED
    BY <2>1, <2>2
<1>5. IliasWeight(q, x) = Fraction(IF x \in q.correct THEN 1 ELSE 0, 1)
  <2>1. Cardinality(Right(q)) = 1
    BY <1>1, <1>2, FS_Singleton
  <2> QED
    BY <1>3, <2>1 DEF IliasWeight
<1> QED
  BY <1>2, <1>4, <1>5

LEMMA SeveralWeights ==
    ASSUME NEW q, q.type = "multiple_choice", NEW x \in q.listed
    PROVE  /\ MoodleWeight(q, x) = SeveralFraction(q, x)
           /\ IliasWeight(q, x) = SeveralFraction(q, x)
<1>1. MoodleWeight(q, x) = SeveralFraction(q, x)
  BY DEF MoodleWeight
<1>2. IliasWeight(q, x) = SeveralFraction(q, x)
  BY DEF IliasWeight, SeveralFraction
<1> QED
  BY <1>1, <1>2

LEMMA QuizzedScoresAlike == Quizzed => ExportScoresAlike
<1> SUFFICES ASSUME Quizzed, ~Skipped(question), question.correct \subseteq question.listed
             PROVE  \A there \in
                        {PlatformShare([x \in question.listed |-> MoodleWeight(question, x)],
                                       ticked),
                         PlatformShare([x \in question.listed |-> IliasWeight(question, x)],
                                       ticked)} :
                      there.n * GraderShare(question, ticked).d
                        = GraderShare(question, ticked).n * there.d
  BY DEF ExportScoresAlike
<1> DEFINE q == question
           v == [x \in q.listed |-> MoodleWeight(q, x)]
           w == [x \in q.listed |-> IliasWeight(q, x)]
           Alike(f) == PlatformShare(f, ticked).n * GraderShare(q, ticked).d
                         = GraderShare(q, ticked).n * PlatformShare(f, ticked).d
<1>1. /\ q \in Choice \cup Several \cup TrueFalse
      /\ ticked \subseteq q.listed
      /\ q.type # "multiple_choice" => ticked = {} \/ \E x : ticked = {x}
  BY DEF Quizzed
<1>2. CASE q \in Several
  <2>1. q.type = "multiple_choice" /\ q.listed \subseteq Options
    BY <1>2 DEF Several
  <2>2. q.correct # {}
    BY DEF Skipped, Right
  <2>3. ASSUME NEW x \in q.listed
        PROVE  v[x] = SeveralFraction(q, x) /\ w[x] = SeveralFraction(q, x)
    BY <2>1, SeveralWeights
  <2> HIDE DEF v, w
  <2>4. Alike(v) /\ Alike(w)
    BY <1>1, <2>1, <2>2, <2>3, SeveralScores
  <2> QED
    BY <2>4 DEF v, w
<1>3. CASE q \in Choice \cup TrueFalse
  <2>1. q.type # "multiple_choice"
    BY <1>3 DEF Choice, TrueFalse
  <2>2. IsFiniteSet(q.listed)
    <3>1. CASE q \in Choice
      <4>1. q.listed \subseteq Options
        BY <3>1 DEF Choice
      <4> QED
        BY <4>1, MarkingAssumption, FS_Subset
    <3>2. CASE q \in TrueFalse
      <4>1. q.listed = {"true"} \cup {"false"}
        BY <3>2 DEF TrueFalse, Truths
      <4>2. IsFiniteSet({"true"})
        BY FS_Singleton
      <4> QED
        BY <4>1, <4>2, FS_AddElement
    <3> QED
      BY <1>3, <3>1, <3>2
  <2>3. ASSUME NEW x \in q.listed
        PROVE  /\ v[x] = Fraction(IF x \in q.correct THEN 1 ELSE 0, 1)
               /\ w[x] = Fraction(IF x \in q.correct THEN 1 ELSE 0, 1)
    <3>1. v[x] = MoodleWeight(q, x) /\ w[x] = IliasWeight(q, x)
      OBVIOUS
    <3> HIDE DEF v, w
    <3> QED
      BY <1>3, <3>1, ChoiceWeights
  <2>4. PICK y : q.correct = {y}
    <3>1. Right(q) # {}
      BY DEF Skipped
    <3>2. PICK x : x \in q.listed
      BY <3>1 DEF Right
    <3> QED
      BY <1>3, <3>2, ChoiceWeights
  <2> HIDE DEF v, w
  <2>5. ticked \subseteq q.listed /\ (ticked = {} \/ \E x : ticked = {x})
    BY <1>1, <2>1
  <2> HIDE DEF q
  <2>6. Alike(v)
    <3>1. \A x \in q.listed : v[x] = Fraction(IF x \in q.correct THEN 1 ELSE 0, 1)
      BY <2>3
    <3> QED
      BY <2>1, <2>2, <2>4, <2>5, <3>1, OneScores DEF q
  <2>7. Alike(w)
    <3>1. \A x \in q.listed : w[x] = Fraction(IF x \in q.correct THEN 1 ELSE 0, 1)
      BY <2>3
    <3> QED
      BY <2>1, <2>2, <2>4, <2>5, <3>1, OneScores DEF q
  <2> QED
    BY <2>6, <2>7 DEF v, w, q
<1> QED
  BY <1>1, <1>2, <1>3

\* For every question, key and answer: the grader's share lies between nothing
\* and all, every right option gains and every wrong one loses
\* (_grade_multiple_response), and what Moodle and ILIAS add up from the exported
\* fractions is the share ExamCraft gives (exam_export_service.py).
THEOREM ExportsScoreAlike == MarkingSpec /\ ExportSpec => []ScoresFair
<1>1. Answered /\ Quizzed => ScoresFair
  BY GradedIsFair, QuizzedScoresAlike DEF ScoresFair
<1> QED
  BY <1>1, AnswersAreGraded, TicksAreOptions, PTL

=============================================================================
