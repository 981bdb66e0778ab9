------------------------------- MODULE Quotas -------------------------------
(***************************************************************************)
(* What one institution may use (backend/utils/tenant_utils.py,            *)
(* backend/services/auswertung_quotas.py): documents, questions of this    *)
(* month, exams evaluated in it, and submissions of an exam.               *)
(*                                                                         *)
(* A limit is compared with what is stored when work is accepted; the work *)
(* stores its results later, in a task or after an await, or fails.  The   *)
(* limits on documents and questions are columns of the institution, copied*)
(* from the plan at some moments; the others are read from the plan.       *)
(***************************************************************************)
EXTENDS Integers, FiniteSets, FiniteSetsExt

CONSTANTS
    PlanNames,
    QuotaOf,     \* [PlanNames -> [Resources -> Nat or Unlimited]]
    FirstQuota,  \* columns of an institution that was just registered
    Unlimited,
    Works,       \* identities of accepted work
    NoWork,
    EvalExams,
    Examinees,
    MaxAmount    \* questions of a job; bound on rows

\* What is accepted and not finished: the upload of a document, the questions
\* of a job, the import of a class (of this month?).
WorkRecords ==
    [kind : {"upload"}] \cup [kind : {"generate"}, amount : 1..MaxAmount]
    \cup [kind : {"import"}, exam : EvalExams, pupils : SUBSET Examinees, current : BOOLEAN]

Resources == {"documents", "questions", "exams", "submissions"}
Columns == {"documents", "questions"}

ASSUME QuotasAssumption ==
    /\ MaxAmount \in Nat \ {0}
    /\ Unlimited \notin Nat
    /\ QuotaOf \in [PlanNames -> [Resources -> Nat \cup {Unlimited}]]
    /\ FirstQuota \in [Columns -> Nat \cup {Unlimited}]
    /\ IsFiniteSet(Works) /\ IsFiniteSet(EvalExams) /\ IsFiniteSet(Examinees)
    /\ NoWork \notin WorkRecords

VARIABLES
    plan,
    columns,     \* max_documents, max_questions_per_month
    documents,   \* how many; those a feature owns do not count
    questions,   \* how many of this month
    evaluated,   \* exams with an import of this month that succeeded
    submitted,   \* [EvalExams -> who has a submission]
    work,        \* what was accepted and is not finished
    beyond       \* what acceptance could not see, or was exempt (history)

quotaVars == <<plan, columns, documents, questions, evaluated, submitted, work, beyond>>

-----------------------------------------------------------------------------
Limit(r) == IF r \in Columns THEN columns[r] ELSE QuotaOf[plan][r]

Accepted(kind) == {w \in Works : work[w] # NoWork /\ work[w].kind = kind}
ImportsOf(e) == {w \in Accepted("import") : work[w].exam = e}
Pending(e) == UNION {work[w].pupils : w \in ImportsOf(e)}

AmountSum(jobs, S) == MapThenSumSet(LAMBDA w : jobs[w].amount, S)

\* What is stored, and what will be stored at most when all work is done.
RowsOf(r, e) ==
    CASE r = "documents" -> documents
      [] r = "questions" -> questions
      [] r = "exams" -> Cardinality(evaluated)
      [] r = "submissions" -> Cardinality(submitted[e])
Total(r, e) ==
    CASE r = "documents" -> documents + Cardinality(Accepted("upload"))
      [] r = "questions" -> questions + AmountSum(work, Accepted("generate"))
      [] r = "exams" -> Cardinality(evaluated \cup
                            {work[w].exam : w \in {v \in Accepted("import") : work[v].current}})
      [] r = "submissions" -> Cardinality(submitted[e] \cup Pending(e))

\* By how much work that is done may go beyond the limit.
Excess(r) ==
    IF Limit(r) = Unlimited THEN 0
    ELSE Max({0} \cup {Total(r, e) - Limit(r) : e \in EvalExams})

-----------------------------------------------------------------------------
QuotaInit ==
    /\ plan \in PlanNames
    /\ columns \in {FirstQuota, [r \in Columns |-> QuotaOf[plan][r]]}
    /\ documents = 0 /\ questions = 0 /\ evaluated = {}
    /\ submitted = [e \in EvalExams |-> {}]
    /\ work = [w \in Works |-> NoWork]
    /\ beyond = [r \in Resources |-> 0]

\* SubscriptionLimits.check_*_limit and assert_*_quota_*: n more fit.
FitsLimitMutant(r, e, n) == Limit(r) # Unlimited => RowsOf(r, e) + n <= Limit(r) + 1
FitsLimit(r, e, n) == Limit(r) # Unlimited => RowsOf(r, e) + n <= Limit(r)

Unseen(r, e) == Total(r, e) - RowsOf(r, e)
Note(r, n) == beyond' = [beyond EXCEPT ![r] = Max({@, n})]

QueueWork(w, job) ==
    /\ work[w] = NoWork
    /\ work' = [work EXCEPT ![w] = job]
    /\ UNCHANGED <<plan, columns, documents, questions, evaluated, submitted>>

\* A superuser is exempt, and it is logged.
Exempt(r, n) == Note(r, Excess(r) + n)

Upload(w, e) ==
    /\ \/ FitsLimit("documents", e, 1) /\ Note("documents", Unseen("documents", e))
       \/ Exempt("documents", 1)
    /\ QueueWork(w, [kind |-> "upload"])

\* generate_rag_exam and retry_generation.
Generate(w, e, n) ==
    /\ \/ FitsLimit("questions", e, n) /\ Note("questions", Unseen("questions", e))
       \/ Exempt("questions", n)
    /\ QueueWork(w, [kind |-> "generate", amount |-> n])

\* The class is counted as if nobody had submitted yet; an exam of this month
\* is not counted again.
ImportFits(e, S) ==
    /\ e \in evaluated \/ FitsLimit("exams", e, 1)
    /\ FitsLimit("submissions", e, Cardinality(S))

ImportResults(w, e, S) ==
    /\ ImportFits(e, S)
    /\ LET seen == {"submissions"} \cup (IF e \in evaluated THEN {} ELSE {"exams"})
       IN  beyond' = [r \in Resources |->
                         IF r \in seen THEN Max({beyond[r], Unseen(r, e)}) ELSE beyond[r]]
    /\ QueueWork(w, [kind |-> "import", exam |-> e, pupils |-> S, current |-> TRUE])

\* create_question_review asks whether none more fit, and stores one.
WriteQuestion(e) ==
    /\ \/ FitsLimit("questions", e, 0) /\ Note("questions", Unseen("questions", e) + 1)
       \/ Exempt("questions", 1)
    /\ questions < MaxAmount
    /\ questions' = questions + 1
    /\ UNCHANGED <<plan, columns, documents, evaluated, submitted, work>>

-----------------------------------------------------------------------------
Ends(w) ==
    /\ work' = [work EXCEPT ![w] = NoWork]
    /\ UNCHANGED <<plan, columns, beyond>>

StoreDocument(w) ==
    /\ w \in Accepted("upload")
    /\ documents' = documents + 1
    /\ Ends(w) /\ UNCHANGED <<questions, evaluated, submitted>>

StoreQuestions(w) ==
    /\ w \in Accepted("generate")
    /\ \E n \in 1..work[w].amount : questions' = questions + n
    /\ Ends(w) /\ UNCHANGED <<documents, evaluated, submitted>>

\* A job counts in the month it was created in.
StoreResults(w) ==
    /\ w \in Accepted("import")
    /\ submitted' = [submitted EXCEPT ![work[w].exam] = @ \cup work[w].pupils]
    /\ evaluated' = IF work[w].current THEN evaluated \cup {work[w].exam} ELSE evaluated
    /\ Ends(w) /\ UNCHANGED <<documents, questions>>

WorkFails(w) ==
    /\ work[w] # NoWork
    /\ Ends(w) /\ UNCHANGED <<documents, questions, evaluated, submitted>>

RemoveDocument ==
    /\ documents > 0
    /\ documents' = documents - 1
    /\ UNCHANGED <<plan, columns, questions, evaluated, submitted, work, beyond>>

\* delete_question; what was written this month counts no longer.
DeleteQuestion ==
    /\ questions > 0
    /\ questions' = questions - 1
    /\ UNCHANGED <<plan, columns, documents, evaluated, submitted, work, beyond>>

\* The jobs stay, and so does the exam among those evaluated.
DeleteResults(e) ==
    /\ submitted' = [submitted EXCEPT ![e] = {}]
    /\ UNCHANGED <<plan, columns, documents, questions, evaluated, work, beyond>>

-----------------------------------------------------------------------------
\* After a change of plan, or of the month, only what is left over may exceed.
Anew == beyond' = [r \in Resources |-> Excess(r)']

\* sync_institution_quotas: by a webhook, by an administrator, at a login.
SyncInstitutionQuotas(p) ==
    /\ plan' = p
    /\ columns' = [r \in Columns |-> QuotaOf[p][r]]
    /\ UNCHANGED <<documents, questions, evaluated, submitted, work>>
    /\ Anew

NewMonth ==
    /\ questions' = 0
    /\ evaluated' = {}
    /\ work' = [w \in Works |-> IF w \in Accepted("import")
                                THEN [work[w] EXCEPT !.current = FALSE] ELSE work[w]]
    /\ UNCHANGED <<plan, columns, documents, submitted>>
    /\ Anew

-----------------------------------------------------------------------------
QuotaNext ==
    \/ \E w \in Works, e \in EvalExams :
          \/ Upload(w, e)
          \/ \E n \in 1..MaxAmount : Generate(w, e, n)
          \/ \E S \in SUBSET Examinees : ImportResults(w, e, S)
    \/ \E w \in Works :
          StoreDocument(w) \/ StoreQuestions(w) \/ StoreResults(w) \/ WorkFails(w)
    \/ \E e \in EvalExams : WriteQuestion(e) \/ DeleteResults(e)
    \/ \E p \in PlanNames : SyncInstitutionQuotas(p)
    \/ RemoveDocument \/ DeleteQuestion \/ NewMonth

QuotaSpec == QuotaInit /\ [][QuotaNext]_quotaVars

-----------------------------------------------------------------------------
\* A limit is exceeded by no more than what was accepted and not yet stored
\* when something else was accepted (and what a superuser or a change of plan
\* puts on top): checks before, and counts after, add up to no more than that.
OvershootBounded ==
    \A r \in Resources, e \in EvalExams :
        Limit(r) # Unlimited => Total(r, e) <= Limit(r) + beyond[r]

\* Results of an evaluated exam can be imported again ("Re-importing the same
\* exam is free").  TLC refutes it (README, section 4).
ReimportFits ==
    \A e \in evaluated : submitted[e] # {} => ImportFits(e, submitted[e])

=============================================================================
