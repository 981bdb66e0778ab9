----------------------------- MODULE AutoCompose -----------------------------
(***************************************************************************)
(* Automatic composition of an exam (backend/services/                     *)
(* auto_compose_service.py): questions are chosen one after the other, each*)
(* time the one that fits the budgets of points and minutes and brings the *)
(* shares of Bloom levels and difficulties closest to their targets.       *)
(* Nothing is taken back.  backend/api/exams.py prepares the candidates    *)
(* and adds the chosen questions; ExamComposer models that as AutoFill.    *)
(***************************************************************************)
EXTENDS Integers, Sequences, FiniteSets, FiniteSetsExt, Functions

CONSTANTS
    Pools,        \* lists of approved questions the query may return
    Goals,        \* what a client asks for
    MaxQuestions, \* MAX_QUESTIONS, 50 in the code
    Missing

\* Questions are worth whole points (point_utils.py); the targets and shares a
\* client asks for, floats in the code, are whole numbers here.
Levels == 1..6
Difficulties == {"easy", "medium", "hard"}
CandidateRecords ==
    [points : Nat, minutes : Nat \cup {Missing}, bloom : Levels \cup {Missing},
     difficulty : Difficulties]
Shares(f, S) == DOMAIN f \subseteq S /\ f \in [DOMAIN f -> Nat]

ASSUME AutoComposeAssumption ==
    /\ MaxQuestions \in Nat
    /\ Missing \notin Nat
    /\ Pools \subseteq Seq(CandidateRecords)
    /\ \A g \in Goals : /\ {g.points, g.minutes} \subseteq Nat \cup {Missing}
                        /\ Shares(g.bloom, Levels)
                        /\ Shares(g.difficulty, Difficulties)

VARIABLES
    goal,         \* target points and minutes or Missing; target shares, in percent
    pool,         \* the candidates at their places in the list, each with points,
                  \* minutes or Missing, a Bloom level or Missing, and a difficulty
    chosen,       \* places in the pool, in the order of their choice
    done

composeVars == <<goal, pool, chosen, done>>

\* With a target the questions that lack the value are not candidates.
Candidate(c, g) ==
    /\ DOMAIN g.bloom # {} => c.bloom # Missing
    /\ g.minutes # Missing => c.minutes # Missing

ComposeInit ==
    /\ goal \in {g \in Goals : g.points # Missing \/ g.minutes # Missing}
    /\ \E p \in Pools : pool = RestrictValues(p, LAMBDA c : Candidate(c, goal))
    /\ chosen = <<>>
    /\ done = FALSE

Chosen == {chosen[i] : i \in DOMAIN chosen}
Remaining == DOMAIN pool \ Chosen

SumOf(w, S) == MapThenSumSet(LAMBDA x : w[x], S)
PointsAt == [i \in DOMAIN pool |-> pool[i].points]
MinutesAt == [i \in DOMAIN pool |->
               IF pool[i].minutes = Missing THEN 0 ELSE pool[i].minutes]
RunningPoints == SumOf(PointsAt, Chosen)
RunningMinutes == SumOf(MinutesAt, Chosen)

BudgetExhausted ==
    \/ goal.points # Missing /\ RunningPoints >= goal.points
    \/ goal.minutes # Missing /\ RunningMinutes >= goal.minutes

FitsMutant(i) ==
    \/ goal.points # Missing /\ RunningPoints + PointsAt[i] <= goal.points
    \/ goal.minutes # Missing /\ RunningMinutes + MinutesAt[i] <= goal.minutes
Fits(i) ==
    /\ goal.points # Missing => RunningPoints + PointsAt[i] <= goal.points
    /\ goal.minutes # Missing => RunningMinutes + MinutesAt[i] <= goal.minutes

\* How close the shares come to their targets with question i, in percent
\* times the number of questions: the same for all candidates of a round.
Closeness(shares, count) ==
    LET n == Len(chosen) + 1
        near == [x \in DOMAIN shares |->
                    Max({0, 100 * n - Max({100 * count[x] - shares[x] * n,
                                           shares[x] * n - 100 * count[x]})})]
    IN  SumOf(near, DOMAIN shares)

Score(i) ==
    LET with == Chosen \cup {i}
        levels == [x \in DOMAIN goal.bloom |-> Cardinality({j \in with : pool[j].bloom = x})]
        hards == [x \in DOMAIN goal.difficulty |->
                     Cardinality({j \in with : pool[j].difficulty = x})]
    IN  (IF pool[i].bloom = Missing THEN 0 ELSE Closeness(goal.bloom, levels))
        + Closeness(goal.difficulty, hards)

\* The first of the best in the order of the list.
Best(S) == Min({i \in S : \A j \in S : Score(j) <= Score(i)})

Stop ==
    \/ Len(chosen) = MaxQuestions
    \/ BudgetExhausted
    \/ ~\E i \in Remaining : Fits(i)

Choose ==
    /\ ~done /\ ~Stop
    /\ chosen' = Append(chosen, Best({i \in Remaining : Fits(i)}))
    /\ UNCHANGED <<goal, pool, done>>

\* _build_report is only read; an empty result is answered with 404.
Finish ==
    /\ ~done /\ Stop
    /\ done' = TRUE
    /\ UNCHANGED <<goal, pool, chosen>>

ComposeNext == Choose \/ Finish

ComposeSpec == ComposeInit /\ [][ComposeNext]_composeVars

-----------------------------------------------------------------------------
\* A budget is never exceeded and no question taken twice; and when the choice
\* ends, a budget is spent, the limit reached, or every other question too big,
\* although candidates were passed over in earlier rounds.
FillsBudget ==
    /\ Cardinality(Chosen) = Len(chosen) /\ Len(chosen) <= MaxQuestions
    /\ goal.points # Missing => RunningPoints <= goal.points
    /\ goal.minutes # Missing => RunningMinutes <= goal.minutes
    /\ done => \/ Len(chosen) = MaxQuestions
               \/ goal.points # Missing /\ RunningPoints = goal.points
               \/ goal.minutes # Missing /\ RunningMinutes = goal.minutes
               \/ \A i \in Remaining : ~Fits(i)

=============================================================================
