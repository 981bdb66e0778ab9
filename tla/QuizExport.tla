----------------------------- MODULE QuizExport -----------------------------
(***************************************************************************)
(* Answer keys that leave the system: the questions of an exam as written  *)
(* for Moodle and ILIAS (backend/services/exam_export_service.py), against *)
(* the marks ExamCraft itself gives for the same answers                   *)
(* (backend/services/grading/deterministic_grader.py).                     *)
(*                                                                         *)
(* An option is its normalized token: trimmed, in lower case, without a    *)
(* letter prefix; the options of a question have different tokens.  Shares *)
(* of the points are fractions, not rounded.                               *)
(***************************************************************************)
EXTENDS Marking

VARIABLES
    question,    \* a question of the exam
    ticked       \* the options a student chooses

exportVars == <<question, ticked>>

-----------------------------------------------------------------------------
Truths == {"true", "false"}

\* correct_answer may name what is no option; of a choice of one it names one.
Choice == [type : {"single_choice"}, listed : SUBSET Options,
           correct : {{}} \cup {{x} : x \in Options}]
Several == [type : {"multiple_choice"}, listed : SUBSET Options, correct : SUBSET Options]
TrueFalse == [type : {"true_false"}, listed : {Truths}, correct : {{}, {"true"}, {"false"}}]

Fraction(n, d) == [n |-> n, d |-> d]
Right(q) == q.listed \cap q.correct
Wrong(q) == q.listed \ q.correct

\* No option is correct: the question is left out and reported.
Skipped(q) == Right(q) = {}

\* Moodle: the fraction of an option of a choice of one, of several, and of
\* true or false.
ChoiceFraction(q, x) == Fraction(IF x \in q.correct THEN 1 ELSE 0, 1)
SeveralFraction(q, x) ==
    IF x \in q.correct THEN Fraction(1, Cardinality(Right(q)))
    ELSE Fraction(-1, Cardinality(Wrong(q)))
TruthFraction(q, x) ==
    LET isTrue == "true" \in q.correct
    IN  Fraction(IF (x = "true") = isTrue THEN 1 ELSE 0, 1)

MoodleWeight(q, x) ==
    CASE q.type = "single_choice" -> ChoiceFraction(q, x)
      [] q.type = "multiple_choice" -> SeveralFraction(q, x)
      [] q.type = "true_false" -> TruthFraction(q, x)

\* ILIAS: what is added for an option that is chosen.
IliasWeightMutant(q, x) ==
    IF x \in q.correct THEN Fraction(1, Cardinality(Right(q))) ELSE Fraction(0, 1)
IliasWeight(q, x) ==
    CASE x \in q.correct -> Fraction(1, Cardinality(Right(q)))
      [] x \notin q.correct /\ q.type = "multiple_choice" ->
             Fraction(-1, Cardinality(Wrong(q)))
      [] OTHER -> Fraction(0, 1)

\* Moodle and ILIAS add up and give no less than nothing.
Plus(f, g) == Fraction(f.n * g.d + g.n * f.d, f.d * g.d)
PlatformShare(weight, answer) ==
    LET total == FoldSet(LAMBDA x, sum : Plus(weight[x], sum), Fraction(0, 1), answer)
    IN  [total EXCEPT !.n = Max({0, @})]

\* _mc_match, _tf_match, _grade_multiple_response.
GraderShare(q, answer) ==
    IF q.type = "multiple_choice"
    THEN Grader(answer, [correct |-> q.correct, options |-> Cardinality(q.listed)]).points
    ELSE Fraction(IF answer = q.correct /\ answer # {} THEN 1 ELSE 0, 1)

-----------------------------------------------------------------------------
ExportInit ==
    /\ question \in Choice \cup Several \cup TrueFalse
    /\ ticked = {}

Tick ==
    /\ \E x \in question.listed \ ticked :
          ticked' = IF question.type = "multiple_choice" THEN ticked \cup {x} ELSE {x}
    /\ UNCHANGED question

ExportSpec == ExportInit /\ [][Tick]_exportVars

-----------------------------------------------------------------------------
\* Every answer to an exported question gets the share of the points on the
\* platform that ExamCraft gives it after the import, as long as the key names
\* options only.
ExportScoresAlike ==
    ~Skipped(question) /\ question.correct \subseteq question.listed =>
        LET q == question
            here == GraderShare(q, ticked)
        IN  \A there \in {PlatformShare([x \in q.listed |-> MoodleWeight(q, x)], ticked),
                           PlatformShare([x \in q.listed |-> IliasWeight(q, x)], ticked)} :
                there.n * here.d = here.n * there.d

\* Every right option of a multiple choice adds and every wrong one takes away,
\* here (SharesFair) and on the platforms alike.
ScoresFair == SharesFair /\ ExportScoresAlike

=============================================================================
