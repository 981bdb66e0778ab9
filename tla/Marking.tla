------------------------------- MODULE Marking -------------------------------
(***************************************************************************)
(* From answers to grades: the multiple-choice grader                      *)
(* (backend/services/grading/deterministic_grader.py), the grading schemes *)
(* a teacher may save (backend/models/grading_scheme.py) and the grade of a*)
(* percentage (backend/services/grading_scheme_evaluator.py).              *)
(*                                                                         *)
(* Percentages are counted in units of which 100 % has Full, grades in     *)
(* tenths.  Floats are taken for the rational numbers they stand for.  A   *)
(* scheme's lists are sets: the code sorts them before it uses them.       *)
(***************************************************************************)
EXTENDS Integers, FiniteSets, FiniteSetsExt

CONSTANTS
    Full,        \* 100 %
    Schemes,     \* configurations a client sends
    Percentages, \* percentages that are evaluated, slightly off [0, Full] too
    Options,     \* answer options
    Null

ASSUME MarkingAssumption ==
    /\ Full \in Nat \ {0}
    /\ Percentages \subseteq Int
    /\ IsFiniteSet(Options)
    /\ Null \notin Nat /\ Null # TRUE

\* What the parser of the configurations leaves: lists, numbers and, for the
\* step of rounding, a positive number or none (0).
ASSUME SchemesAssumption ==
    \A c \in Schemes :
        /\ c.type = "linear_segments" =>
               /\ IsFiniteSet(c.segments) /\ c.round \in Nat
               /\ \A s \in c.segments : {s.fromGrade, s.toGrade} \subseteq Int
        /\ c.type = "linear" =>
               /\ c.round \in Nat
               /\ {c.fromGrade, c.toGrade} \subseteq Int
        /\ c.type = "stepped" => IsFiniteSet(c.steps)

VARIABLES
    scheme,      \* the scheme an exam uses, its own or the institution's, or Null
    key,         \* correct_answer and num_options of a question
    given,       \* the answer of a student
    outcome      \* its points, a fraction, and is_correct

markingVars == <<scheme, key, given, outcome>>

-----------------------------------------------------------------------------
(***************************************************************************)
(* Saving a scheme: the validators of models/grading_scheme.py             *)
(***************************************************************************)

Percent == 0..Full

First(S) == CHOOSE s \in S : \A t \in S : s.from <= t.from
TopSegment(S) == CHOOSE s \in S : \A t \in S : t.from <= s.from

\* Neither a gap nor an overlap between neighbours in the order of from_pct.
Covers(S) ==
    /\ First(S).from = 0
    /\ TopSegment(S).to = Full
    /\ \A s, t \in S : s # t => s.from # t.from
    /\ \A s \in S \ {TopSegment(S)} :
          s.to = Min({t.from : t \in {x \in S : x.from > s.from}})

ValidSegments(S) ==
    /\ S # {}
    /\ \A s \in S : s.from \in Percent /\ s.to \in Percent /\ s.from < s.to
    /\ Covers(S)

ValidSteps(S) ==
    /\ S # {}
    /\ \A s \in S : s.min \in Percent
    /\ \A s, t \in S : s # t => s.min # t.min
    /\ \E s \in S : s.passing
    /\ \E s \in S : s.min = 0

Valid(c) ==
    \/ c.type = "linear_segments" /\ ValidSegments(c.segments)
    \/ /\ c.type = "linear"
       /\ c.from \in Percent /\ c.to \in Percent /\ c.from < c.to
    \/ c.type = "stepped" /\ ValidSteps(c.steps)

-----------------------------------------------------------------------------
(***************************************************************************)
(* percentage_to_grade and is_passing                                      *)
(***************************************************************************)

Clamp(x, low, high) == Max({low, Min({high, x})})

\* Python rounds a tie to the even neighbour.
RoundHalfEven(n, d) ==
    LET q == n \div d
        r == n % d
    IN  IF 2 * r < d \/ (2 * r = d /\ q % 2 = 0) THEN q ELSE q + 1

\* A line through two points, rounded to the scheme's step (a tenth if none).
Interpolate(s, pct, step) ==
    LET width == s.to - s.from
        along == Clamp(pct - s.from, 0, width)
        unit == IF step = 0 THEN 1 ELSE step
    IN  unit * RoundHalfEven(s.fromGrade * width + along * (s.toGrade - s.fromGrade),
                             width * unit)

\* A segment ends before its to_pct, except for the last.
InRangeMutant(S, s, pct) == s.from <= pct /\ pct < s.to
InRange(S, s, pct) ==
    /\ s.from <= pct
    /\ pct < s.to \/ (s = TopSegment(S) /\ pct = s.to)

Segment(S, pct) == First({s \in S : InRange(S, s, pct)})

\* The highest step that is reached; the lowest step below all of them.
FindStep(S, pct) ==
    LET reached == {s \in S : pct >= s.min}
    IN  IF reached = {} THEN CHOOSE s \in S : \A t \in S : s.min <= t.min
        ELSE CHOOSE s \in reached : \A t \in reached : t.min <= s.min

\* Otherwise GradingSchemeError.
Gradable(c, percentage) ==
    c.type = "linear_segments" =>
        \E s \in c.segments : InRange(c.segments, s, Clamp(percentage, 0, Full))

Grade(c, percentage) ==
    LET pct == Clamp(percentage, 0, Full)
    IN  CASE c.type = "linear" -> Interpolate(c, pct, c.round)
          [] c.type = "linear_segments" ->
                Interpolate(Segment(c.segments, pct), pct, c.round)
          [] c.type = "stepped" -> FindStep(c.steps, pct).label

Passes(c, percentage, threshold) ==
    LET pct == Clamp(percentage, 0, Full)
    IN  IF c.type = "stepped" THEN FindStep(c.steps, pct).passing ELSE pct >= threshold

-----------------------------------------------------------------------------
(***************************************************************************)
(* _grade_multiple_response                                                *)
(***************************************************************************)

\* No correct option, no usable number of options, or too few of them.
Unusable(k) ==
    \/ k.correct = {}
    \/ k.options = Null
    \/ Cardinality(k.correct) > k.options

\* The share of the points: selected correct of all correct ones less selected
\* wrong of all wrong ones, never below 0.
Share(right, wrong, k, w) ==
    IF w = 0 THEN [n |-> right, d |-> k]
    ELSE [n |-> Max({0, right * w - wrong * k}), d |-> k * w]

Grader(answer, k) ==
    IF Unusable(k) THEN [points |-> [n |-> 0, d |-> 1], correct |-> Null]
    ELSE [points |-> Share(Cardinality(answer \cap k.correct),
                           Cardinality(answer \ k.correct),
                           Cardinality(k.correct),
                           k.options - Cardinality(k.correct)),
          correct |-> answer = k.correct]

-----------------------------------------------------------------------------
Keys == [correct : SUBSET Options, options : (1..Cardinality(Options)) \cup {Null}]

MarkingInit ==
    /\ scheme = Null
    /\ key = [correct |-> {}, options |-> Null]
    /\ given = {}
    /\ outcome = Grader(given, key)

SaveScheme ==
    \E c \in Schemes :
        /\ Valid(c)
        /\ scheme' = c
        /\ UNCHANGED <<key, given, outcome>>

GradeAnswer ==
    /\ key' \in Keys
    /\ given' \in SUBSET Options
    /\ outcome' = Grader(given', key')
    /\ UNCHANGED scheme

MarkingSpec == MarkingInit /\ [][SaveScheme \/ GradeAnswer]_markingVars

-----------------------------------------------------------------------------
(***************************************************************************)
(* Properties                                                              *)
(***************************************************************************)

\* More points never make the grade worse, where the segments rise and join,
\* rounding included, and never fail whom fewer points pass, where the passing
\* steps are the upper ones.
Rises(S) ==
    /\ \A s \in S : s.fromGrade <= s.toGrade
    /\ \A s, t \in S : s.to = t.from => s.toGrade <= t.fromGrade

MorePointsNeverHurt ==
    LET c == scheme
        rising ==
            \/ c.type = "linear_segments" /\ Rises(c.segments)
            \/ c.type = "linear" /\ c.fromGrade <= c.toGrade
        upper ==
            /\ c.type = "stepped"
            /\ \A s, t \in c.steps : s.min <= t.min /\ s.passing => t.passing
    IN  c # Null => \A p, q \in Percentages : p <= q =>
            /\ rising => Grade(c, p) <= Grade(c, q)
            /\ upper /\ Passes(c, p, Full) => Passes(c, q, Full)

\* A scheme that could be saved grades every percentage, at the borders of its
\* segments and off the scale too, and more points never hurt under it.
SavedSchemesGrade ==
    /\ scheme # Null => \A p \in Percentages : Gradable(scheme, p)
    /\ MorePointsNeverHurt

\* Points lie between none and all; the right set gets all of them, and ticking
\* a wrong option more never gains anything nor a right one more costs anything.
AtMost(a, b) == a.n * b.d <= b.n * a.d
SharesFair ==
    /\ outcome.points.n \in 0..outcome.points.d
    /\ outcome.correct = TRUE => outcome.points.n = outcome.points.d
    /\ ~Unusable(key) => \A x \in Options \ given :
          LET more == Grader(given \cup {x}, key).points
          IN  IF x \in key.correct THEN AtMost(outcome.points, more)
              ELSE AtMost(more, outcome.points)

=============================================================================
