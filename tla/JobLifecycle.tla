---------------------------- MODULE JobLifecycle ----------------------------
(***************************************************************************)
(* What a question generation job promises the user who started it, with   *)
(* no broker, worker, result backend or watchdog: a job ends at most once, *)
(* stores its questions only when it ends well, and is retried only when   *)
(* there are none.                                                         *)
(***************************************************************************)
CONSTANTS Jobs, NoJob

VARIABLES
    outcome,     \* how far the job got
    questions,   \* does it have questions now?
    parent       \* the job it retries

lifecycle == <<outcome, questions, parent>>

Outcomes == {"absent", "open", "done", "givenUp", "withdrawn"}

Init ==
    /\ outcome = [j \in Jobs |-> "absent"]
    /\ questions = [j \in Jobs |-> FALSE]
    /\ parent = [j \in Jobs |-> NoJob]

Ends(j, from, to) == outcome[j] \in from /\ outcome' = [outcome EXCEPT ![j] = to]

\* The user starts a job, or the retry he asked for starts.
Start(j) == Ends(j, {"absent"}, "open") /\ UNCHANGED <<questions, parent>>

\* The one way to get questions: an open job is done.
Finish(j) ==
    /\ Ends(j, {"open"}, "done")
    /\ questions' = [questions EXCEPT ![j] = TRUE]
    /\ UNCHANGED parent

GiveUp(j) == Ends(j, {"open"}, "givenUp") /\ UNCHANGED <<questions, parent>>

\* The request could not hand the job over and takes it back.
Withdraw(j) ==
    /\ Ends(j, {"open", "done", "givenUp"}, "withdrawn")
    /\ questions' = [questions EXCEPT ![j] = FALSE]
    /\ UNCHANGED parent

\* Reviewers delete all of the job's questions.
Delete(j) ==
    /\ questions[j]
    /\ questions' = [questions EXCEPT ![j] = FALSE]
    /\ UNCHANGED <<outcome, parent>>

\* A new job repeats one that is over and has no questions.
Retry(j, k) ==
    /\ outcome[j] \in {"done", "givenUp"}
    /\ ~questions[j]
    /\ outcome[k] = "absent"
    /\ parent' = [parent EXCEPT ![k] = j]
    /\ UNCHANGED <<outcome, questions>>

Next ==
    \E j \in Jobs :
        \/ Start(j)
        \/ Finish(j)
        \/ GiveUp(j)
        \/ Withdraw(j)
        \/ Delete(j)
        \/ \E k \in Jobs : Retry(j, k)

Spec == Init /\ [][Next]_lifecycle

=============================================================================
