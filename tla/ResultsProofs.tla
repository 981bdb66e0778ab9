---------------------------- MODULE ResultsProofs -----------------------------
(***************************************************************************)
(* Proofs about the results of exams: their import, with other imports and *)
(* deletions at the same time (ImportJob), their grades and reviews        *)
(* (Grading), the grading schemes with the statistics and grade exports    *)
(* made by them (Reports), and the way results find back from Moodle       *)
(* (RoundTrip, ResultFiles).                                               *)
(***************************************************************************)
EXTENDS ImportJob, Grading, Reports, ResultFiles, Sums, SequenceTheorems

-----------------------------------------------------------------------------
(***************************************************************************)
(* The import of results.  A run decides by what it read at its start and  *)
(* on its way, other imports commit in between, and a deletion may take    *)
(* away what it read.  What protects it are the unique keys: while a run   *)
(* holds an INSERT of a submission or of an attempt, no other run can make *)
(* the same, and a deletion waits for it.                                  *)
(***************************************************************************)

\* A run has its fields and nothing else.
RunTyped(r) ==
    /\ r = [pc |-> r.pc, retries |-> r.retries, todo |-> r.todo, hand |-> r.hand,
            cached |-> r.cached, made |-> r.made, new |-> r.new, errors |-> r.errors,
            gone |-> r.gone, wiped |-> r.wiped]
    /\ r.todo \subseteq Attempts /\ r.new \subseteq Attempts
    /\ r.made \subseteq Students /\ r.cached \subseteq Students
    /\ r.pc \in PCs
    /\ r.wiped \in BOOLEAN

\* Points where a run has not yet, or no longer, looked at its rows.
Outside == {"none", "queued", "parse", "transient", "permanent", "ack"}
AtRows == {"rows", "submission", "attempt", "grade"}

Committed(s) == submission[s] # "none"

\* What a run holds when it is at none, one or all of its rows.
RunAt(r) ==
    /\ r.pc \in Outside =>
           /\ r.hand = {} /\ r.todo = {}
           /\ r.cached = {} /\ r.made = {} /\ r.new = {}
    /\ r.pc \in {"rows", "grade"} => r.hand = {}
    /\ r.pc = "grade" => r.todo = {}
    /\ r.pc \in {"submission", "attempt"} => \E a \in Attempts : r.hand = {a}

\* A submission it fetched or made is there, or it knows of the deletion.
RunKnows(r) ==
    /\ \A s \in r.made : ~Committed(s)
    /\ \A s \in r.cached : s \in r.made \/ s \in r.gone \/ Committed(s)
    /\ r.pc = "attempt" => \A a \in r.hand : Owner[a] \in r.cached
    /\ \A a \in r.new : Owner[a] \in r.made \/ Committed(Owner[a])

\* What it inserts is new, and no row of its file is forgotten.
RunKeeps(j, r) ==
    /\ \A a \in r.new : storedBy[a] = NoJob
    /\ r.pc \in AtRows /\ ~r.wiped /\ r.errors = {} =>
           \A a \in File[j] : a \in Stored \/ a \in r.new \/ a \in r.todo \/ a \in r.hand

RunFits(j, r) == RunTyped(r) /\ RunAt(r) /\ RunKnows(r) /\ RunKeeps(j, r)

Apart(r, s) == r.made \cap s.made = {} /\ r.new \cap s.new = {}

ImportInv ==
    /\ run = [j \in Jobs |-> run[j]]
    /\ storedBy = [a \in Attempts |-> storedBy[a]]
    /\ submission = [s \in Students |-> submission[s]]
    /\ \A j \in Jobs : RunFits(j, run[j])
    /\ \A j, k \in Jobs : j # k => Apart(run[j], run[k])
    /\ AttemptsGradedOrFlagged

-----------------------------------------------------------------------------
\* A run that holds nothing.
Bare(p, n) == [EmptyRun EXCEPT !.pc = p, !.retries = n]

LEMMA BareIs ==
    ASSUME NEW p, NEW n
    PROVE  Bare(p, n) =
             [pc |-> p, retries |-> n, todo |-> {}, hand |-> {}, cached |-> {},
              made |-> {}, new |-> {}, errors |-> {}, gone |-> {}, wiped |-> FALSE]
<1>1. PICK r : r = [EmptyRun EXCEPT !.pc = p, !.retries = n]
  OBVIOUS
<1>2. r = [pc |-> p, retries |-> n, todo |-> {}, hand |-> {}, cached |-> {},
           made |-> {}, new |-> {}, errors |-> {}, gone |-> {}, wiped |-> FALSE]
  BY <1>1 DEF EmptyRun
<1> QED
  BY <1>1, <1>2 DEF Bare

LEMMA EmptyIs == EmptyRun = Bare("none", 0) /\ \A n : Message(n) = Bare("queued", n)
<1>1. EmptyRun = Bare("none", 0)
  BY BareIs DEF EmptyRun
<1>2. \A n : Message(n) = Bare("queued", n)
  BY DEF Message, Bare
<1> QED
  BY <1>1, <1>2

LEMMA FreshRun ==
    ASSUME NEW j \in Jobs, NEW p \in Outside, NEW n
    PROVE  /\ RunFits(j, Bare(p, n))
           /\ RunTyped(Bare(p, n)) /\ RunAt(Bare(p, n))
           /\ RunKnows(Bare(p, n))' /\ RunKeeps(j, Bare(p, n))'
           /\ \A s : Apart(Bare(p, n), s) /\ Apart(s, Bare(p, n))
<1>1. PICK r : r = [pc |-> p, retries |-> n, todo |-> {}, hand |-> {}, cached |-> {},
                    made |-> {}, new |-> {}, errors |-> {}, gone |-> {}, wiped |-> FALSE]
  OBVIOUS
<1>2. /\ r.pc = p /\ r.todo = {} /\ r.hand = {} /\ r.cached = {} /\ r.made = {}
      /\ r.new = {} /\ ~r.wiped
  BY <1>1
<1>3. r.wiped \in BOOLEAN
  BY <1>1
<1>4. r = [pc |-> r.pc, retries |-> r.retries, todo |-> r.todo, hand |-> r.hand,
           cached |-> r.cached, made |-> r.made, new |-> r.new, errors |-> r.errors,
           gone |-> r.gone, wiped |-> r.wiped]
  BY <1>1
<1>5. RunTyped(r)
  <2>1. p \in PCs
    BY DEF Outside, PCs, Executing, InTransaction
  <2> QED
    BY <1>2, <1>3, <1>4, <2>1 DEF RunTyped
<1>6. /\ RunAt(r) /\ RunKnows(r) /\ RunKeeps(j, r)
      /\ RunKnows(r)' /\ RunKeeps(j, r)'
  BY <1>2 DEF RunAt, RunKnows, RunKeeps, Outside, AtRows
<1>7. \A s : Apart(r, s) /\ Apart(s, r)
  BY <1>2 DEF Apart
<1>8. Bare(p, n) = r
  BY <1>1, BareIs
<1> QED
  BY <1>5, <1>6, <1>7, <1>8 DEF RunFits

\* A step of one run that commits nothing.
LEMMA RunMoves ==
    ASSUME ImportInv, NEW j \in Jobs, NEW r, run' = [run EXCEPT ![j] = r],
           UNCHANGED resultVars, RunFits(j, r),
           \A k \in Jobs \ {j} : Apart(r, run[k]) /\ Apart(run[k], r)
    PROVE  ImportInv'
<1>1. storedBy' = storedBy /\ submission' = submission
  BY DEF resultVars
<1>2. run' = [k \in Jobs |-> IF k = j THEN r ELSE run[k]]
  BY DEF ImportInv
<1>3. \A k \in Jobs : RunFits(k, run'[k])
  BY <1>2 DEF ImportInv
<1>4. \A k \in Jobs : RunFits(k, run[k])'
  BY <1>1, <1>3 DEF RunFits, RunKnows, RunKeeps, Committed, Stored, RunTyped, RunAt
<1>5. \A k, l \in Jobs : k # l => Apart(run'[k], run'[l])
  BY <1>2 DEF ImportInv
<1>6. AttemptsGradedOrFlagged'
  BY <1>1 DEF ImportInv, AttemptsGradedOrFlagged, Stored
<1> HIDE DEF RunFits
<1> QED
  BY <1>1, <1>2, <1>4, <1>5, <1>6 DEF ImportInv, Apart

LEMMA RunStays ==
    ASSUME ImportInv, UNCHANGED <<run, resultVars>>
    PROVE  ImportInv'
<1>1. run' = run /\ storedBy' = storedBy /\ submission' = submission
  BY DEF resultVars
<1>a. \A j \in Jobs : RunFits(j, run'[j])
  BY <1>1 DEF ImportInv
<1>2. \A j \in Jobs : RunFits(j, run[j])'
  BY <1>1, <1>a DEF RunFits, RunKnows, RunKeeps, Committed, Stored, RunTyped, RunAt
<1>3. AttemptsGradedOrFlagged'
  BY <1>1 DEF ImportInv, AttemptsGradedOrFlagged, Stored
<1>4. \A j, k \in Jobs : j # k => Apart(run[j], run[k])'
  BY <1>1 DEF ImportInv, Apart
<1> QED
  BY <1>1, <1>2, <1>3, <1>4 DEF ImportInv

\* The run is over, or waits for another turn.
LEMMA RunEnds ==
    ASSUME ImportInv, NEW j \in Jobs, NEW p \in Outside, NEW n,
           run' = [run EXCEPT ![j] = Bare(p, n)], UNCHANGED resultVars
    PROVE  ImportInv'
  BY FreshRun, RunMoves

-----------------------------------------------------------------------------
(* The steps of a run to its last commit.                                   *)

\* Of another run, nothing was inserted that this one could insert.
LEMMA NotBlocked ==
    ASSUME NEW j \in Jobs, ~Blocked(j), NEW k \in Jobs \ {j}, NEW a \in run[j].hand
    PROVE  /\ run[j].pc = "submission" => Owner[a] \notin run[k].made
           /\ run[j].pc = "attempt" => a \notin run[k].new
  BY DEF Blocked, BlockedBy

LEMMA TakeStep ==
    ASSUME ImportInv, NEW j \in Jobs, LoadKnown(j) \/ NextAttempt(j) \/ RowsDone(j)
    PROVE  ImportInv'
<1>0. RunFits(j, run[j]) /\ RunTyped(run[j]) /\ UNCHANGED resultVars
  BY DEF ImportInv, RunFits, LoadKnown, NextAttempt, RowsDone
<1>1. ASSUME NEW r, run' = [run EXCEPT ![j] = r], RunFits(j, r),
             r.made = run[j].made, r.new = run[j].new
      PROVE  ImportInv'
  <2>1. \A k \in Jobs \ {j} : Apart(r, run[k]) /\ Apart(run[k], r)
    BY <1>1 DEF ImportInv, Apart
  <2> QED
    BY <1>0, <1>1, <2>1, RunMoves
<1>2. CASE LoadKnown(j)
  <2>1. PICK r : r = [run[j] EXCEPT !.pc = "rows", !.todo = File[j] \ Stored]
    OBVIOUS
  <2>2. run[j].pc = "parse" /\ run' = [run EXCEPT ![j] = r]
    BY <1>2, <2>1 DEF LoadKnown
  <2>3. /\ r.pc = "rows" /\ r.todo = File[j] \ Stored
        /\ r.hand = run[j].hand /\ r.cached = run[j].cached /\ r.made = run[j].made
        /\ r.new = run[j].new
    BY <1>0, <2>1 DEF RunTyped
  <2>4. r.todo \subseteq Attempts
    BY <2>3, ConstantsAssumption
  <2>5. RunTyped(r)
    BY <1>0, <2>1, <2>3, <2>4 DEF RunTyped, PCs, Executing, InTransaction
  <2>6. /\ r.hand = {} /\ r.cached = {} /\ r.made = {} /\ r.new = {}
    BY <1>0, <2>2, <2>3 DEF RunFits, RunAt, Outside
  <2>7. RunAt(r) /\ RunKnows(r) /\ RunKeeps(j, r)
    BY <2>3, <2>6 DEF RunAt, RunKnows, RunKeeps, Outside
  <2> QED
    BY <1>1, <2>2, <2>3, <2>5, <2>7 DEF RunFits
<1>3. CASE NextAttempt(j)
  <2>1. PICK a \in run[j].todo :
          LET s == Owner[a]
              found == s \in run[j].cached \/ submission[s] # "none"
          IN  run' = [run EXCEPT ![j] =
                 [run[j] EXCEPT !.hand = {a},
                                !.todo = @ \ {a},
                                !.cached = IF found THEN @ \cup {s} ELSE @,
                                !.pc = IF found THEN "attempt" ELSE "submission"]]
    BY <1>3 DEF NextAttempt
  <2> DEFINE s == Owner[a]
             found == s \in run[j].cached \/ submission[s] # "none"
  <2>2. PICK r : r = [run[j] EXCEPT !.hand = {a},
                           !.todo = run[j].todo \ {a},
                           !.cached = IF found THEN run[j].cached \cup {s} ELSE run[j].cached,
                           !.pc = IF found THEN "attempt" ELSE "submission"]
    OBVIOUS
  <2>3. run[j].pc = "rows" /\ run' = [run EXCEPT ![j] = r]
    BY <1>3, <2>1, <2>2 DEF NextAttempt, ImportInv
  <2>4. /\ r.pc = IF found THEN "attempt" ELSE "submission"
        /\ r.todo = run[j].todo \ {a} /\ r.hand = {a}
        /\ r.cached = IF found THEN run[j].cached \cup {s} ELSE run[j].cached
        /\ r.made = run[j].made /\ r.new = run[j].new
        /\ r.errors = run[j].errors /\ r.gone = run[j].gone
        /\ r.wiped = run[j].wiped
    BY <1>0, <2>2 DEF RunTyped
  <2>6. a \in Attempts /\ s \in Students /\ run[j].hand = {}
    BY <1>0, <2>3, ConstantsAssumption DEF RunTyped, RunFits, RunAt
  <2> HIDE DEF found
  <2>a. r = [pc |-> r.pc, retries |-> r.retries, todo |-> r.todo, hand |-> r.hand,
             cached |-> r.cached, made |-> r.made, new |-> r.new, errors |-> r.errors,
             gone |-> r.gone, wiped |-> r.wiped]
    BY <1>0, <2>2 DEF RunTyped
  <2>b. r.pc \in PCs
    BY <2>4 DEF PCs, Executing, InTransaction
  <2>5. RunTyped(r)
    BY <1>0, <2>4, <2>6, <2>a, <2>b DEF RunTyped
  <2> USE DEF found
  <2>7. RunAt(r)
    BY <2>4, <2>6 DEF RunAt, Outside
  <2>8. RunKnows(r)
    BY <1>0, <2>4 DEF RunFits, RunKnows, Committed
  <2>9. RunKeeps(j, r)
    BY <1>0, <2>3, <2>4, <2>6 DEF RunFits, RunKeeps, AtRows
  <2> QED
    BY <1>1, <2>3, <2>4, <2>5, <2>7, <2>8, <2>9 DEF RunFits
<1>4. CASE RowsDone(j)
  <2>1. PICK r : r = [run[j] EXCEPT !.pc = "grade"]
    OBVIOUS
  <2>2. run[j].pc = "rows" /\ run[j].todo = {} /\ run' = [run EXCEPT ![j] = r]
    BY <1>4, <2>1 DEF RowsDone, Goto
  <2>3. /\ r.pc = "grade" /\ r.todo = run[j].todo
        /\ r.hand = run[j].hand /\ r.cached = run[j].cached /\ r.made = run[j].made
        /\ r.new = run[j].new /\ r.errors = run[j].errors /\ r.gone = run[j].gone
        /\ r.wiped = run[j].wiped
    BY <1>0, <2>1 DEF RunTyped
  <2>4. RunTyped(r)
    BY <1>0, <2>1, <2>3 DEF RunTyped, PCs, Executing, InTransaction
  <2>5. RunAt(r) /\ RunKnows(r) /\ RunKeeps(j, r)
    BY <1>0, <2>2, <2>3 DEF RunFits, RunAt, RunKnows, RunKeeps, Outside, AtRows
  <2> QED
    BY <1>1, <2>2, <2>3, <2>4, <2>5 DEF RunFits
<1> QED
  BY <1>2, <1>3, <1>4

\* An INSERT of a submission no other run holds and nobody committed.
LEMMA SubmissionStep ==
    ASSUME ImportInv, NEW j \in Jobs, InsertSubmission(j)
    PROVE  ImportInv'
<1>0. RunFits(j, run[j]) /\ RunTyped(run[j]) /\ UNCHANGED resultVars
  BY DEF ImportInv, RunFits, InsertSubmission
<1>1. PICK a \in Attempts : run[j].hand = {a}
  BY <1>0 DEF RunFits, RunAt, InsertSubmission
<1> DEFINE s == Owner[a]
<1>2. s \in Students /\ {Owner[x] : x \in run[j].hand} = {s} /\ ~Committed(s)
  BY <1>1, ConstantsAssumption DEF InsertSubmission, Committed
<1>3. PICK r : r = [run[j] EXCEPT !.made = run[j].made \cup {s},
                                  !.cached = run[j].cached \cup {s}, !.pc = "attempt"]
  OBVIOUS
<1>4. run' = [run EXCEPT ![j] = r] /\ run[j].pc = "submission"
  BY <1>2, <1>3 DEF InsertSubmission, ImportInv
<1>5. /\ r.pc = "attempt" /\ r.todo = run[j].todo /\ r.hand = {a}
      /\ r.cached = run[j].cached \cup {s} /\ r.made = run[j].made \cup {s}
      /\ r.new = run[j].new /\ r.errors = run[j].errors /\ r.gone = run[j].gone
      /\ r.wiped = run[j].wiped
  BY <1>0, <1>1, <1>3 DEF RunTyped
<1>6. RunTyped(r)
  BY <1>0, <1>2, <1>3, <1>5 DEF RunTyped, PCs, Executing, InTransaction
<1>7. RunAt(r)
  BY <1>5 DEF RunAt, Outside
<1>8. RunKnows(r)
  BY <1>0, <1>2, <1>5 DEF RunFits, RunKnows
<1>9. RunKeeps(j, r)
  BY <1>0, <1>1, <1>4, <1>5 DEF RunFits, RunKeeps, AtRows
<1>10. ASSUME NEW k \in Jobs \ {j} PROVE Apart(r, run[k]) /\ Apart(run[k], r)
  <2>1. s \notin run[k].made
    BY <1>1, <1>4, NotBlocked DEF InsertSubmission
  <2>2. Apart(run[j], run[k])
    BY DEF ImportInv
  <2> QED
    BY <1>5, <2>1, <2>2 DEF Apart
<1> QED
  BY <1>0, <1>4, <1>6, <1>7, <1>8, <1>9, <1>10, RunMoves DEF RunFits

\* An INSERT of an attempt: new, or skipped, or an error of the run.
LEMMA AttemptStep ==
    ASSUME ImportInv, NEW j \in Jobs, InsertAttempt(j)
    PROVE  ImportInv'
<1>0. RunFits(j, run[j]) /\ RunTyped(run[j]) /\ UNCHANGED resultVars
  BY DEF ImportInv, RunFits, InsertAttempt
<1>1. PICK a \in run[j].hand : run' = [run EXCEPT ![j] = AttemptAfterInsert(j, a)]
  BY DEF InsertAttempt
<1>2. run[j].pc = "attempt" /\ run[j].hand = {a} /\ a \in Attempts
  BY <1>0, <1>1 DEF RunFits, RunAt, InsertAttempt
<1> DEFINE stores == Insertable(j, a) /\ a \notin Stored
<1>3. PICK r : r = [run[j] EXCEPT !.hand = {}, !.pc = "rows",
                   !.new = IF stores THEN run[j].new \cup {a} ELSE run[j].new,
                   !.errors = IF Insertable(j, a) THEN run[j].errors
                              ELSE run[j].errors \cup {"row"}]
  OBVIOUS
<1>4. run' = [run EXCEPT ![j] = r]
  BY <1>1, <1>3 DEF AttemptAfterInsert
<1>5. /\ r.pc = "rows" /\ r.todo = run[j].todo /\ r.hand = {}
      /\ r.cached = run[j].cached /\ r.made = run[j].made
      /\ r.new = IF stores THEN run[j].new \cup {a} ELSE run[j].new
      /\ r.errors = IF Insertable(j, a) THEN run[j].errors ELSE run[j].errors \cup {"row"}
      /\ r.gone = run[j].gone /\ r.wiped = run[j].wiped
  BY <1>0, <1>3 DEF RunTyped
<1>6. RunTyped(r)
  BY <1>0, <1>2, <1>3, <1>5 DEF RunTyped, PCs, Executing, InTransaction
<1>7. RunAt(r)
  BY <1>5 DEF RunAt, Outside
<1>8. stores => storedBy[a] = NoJob /\ (Owner[a] \in run[j].made \/ Committed(Owner[a]))
  BY <1>0, <1>2 DEF RunFits, RunKnows, Insertable, Stored
<1>9. RunKnows(r)
  BY <1>0, <1>5, <1>8 DEF RunFits, RunKnows
<1>10. RunKeeps(j, r)
  <2>1. \A x \in r.new : storedBy[x] = NoJob
    BY <1>0, <1>5, <1>8 DEF RunFits, RunKeeps
  <2>2. ASSUME ~r.wiped, r.errors = {}, NEW x \in File[j]
        PROVE  x \in Stored \/ x \in r.new \/ x \in r.todo \/ x \in r.hand
    <3>1. Insertable(j, a) /\ run[j].errors = {} /\ ~run[j].wiped
      BY <1>5, <2>2
    <3>2. x \in Stored \/ x \in run[j].new \/ x \in run[j].todo \/ x = a
      BY <1>0, <1>2, <3>1 DEF RunFits, RunKeeps, AtRows
    <3> QED
      BY <1>5, <3>1, <3>2
  <2> QED
    BY <2>1, <2>2 DEF RunKeeps
<1>11. ASSUME NEW k \in Jobs \ {j} PROVE Apart(r, run[k]) /\ Apart(run[k], r)
  <2>1. a \notin run[k].new
    BY <1>2, NotBlocked DEF InsertAttempt
  <2>2. Apart(run[j], run[k])
    BY DEF ImportInv
  <2> QED
    BY <1>5, <2>1, <2>2 DEF Apart
<1> QED
  BY <1>0, <1>4, <1>6, <1>7, <1>9, <1>10, <1>11, RunMoves DEF RunFits

-----------------------------------------------------------------------------
(* The steps that change what the exam has.                                 *)

\* After the last commit of j: what it touched is graded or flagged.
LEMMA FinishStep ==
    ASSUME ImportInv, NEW j \in Jobs, FinishRun(j)
    PROVE  ImportInv'
<1>1. PICK failed \in SUBSET Touched(j) :
          /\ storedBy' = [a \in Attempts |-> IF a \in run[j].new THEN j ELSE storedBy[a]]
          /\ submission' = SubmissionsAfter(j, failed)
          /\ Rollback(j, "ack")
  BY DEF FinishRun
<1>2. /\ \A k \in Jobs : RunTyped(run[k]) /\ RunAt(run[k]) /\ RunKnows(run[k])
                         /\ RunKeeps(k, run[k])
      /\ \A k \in Jobs \ {j} : Apart(run[k], run[j])
  BY DEF ImportInv, RunFits
<1>3. \A s \in Students :
          submission'[s] = IF s \in failed THEN "failed"
                           ELSE IF s \in Touched(j) THEN "graded"
                           ELSE IF s \in run[j].made THEN "pending" ELSE submission[s]
  BY <1>1 DEF SubmissionsAfter
<1>4. \A a \in Attempts : Owner[a] \in Students
  BY ConstantsAssumption
<1>5. \A s \in Students : Committed(s) => Committed(s)'
  BY <1>3 DEF Committed
<1>6. run' = [k \in Jobs |-> IF k = j THEN Bare("ack", run[j].retries) ELSE run[k]]
  BY <1>1 DEF Rollback, Bare, ImportInv
<1>7. RunFits(j, run[j])'
  <2>1. "ack" \in Outside
    BY DEF Outside
  <2>2. PICK r : r = Bare("ack", run[j].retries)
    OBVIOUS
  <2>3. RunTyped(r) /\ RunAt(r) /\ RunKnows(r)' /\ RunKeeps(j, r)'
    BY <2>1, <2>2, FreshRun
  <2>4. run'[j] = r
    BY <1>6, <2>2
  <2> QED
    BY <2>3, <2>4 DEF RunFits, RunTyped, RunAt, RunKnows, RunKeeps
<1>8. ASSUME NEW k \in Jobs \ {j} PROVE RunFits(k, run[k])'
  <2>1. run'[k] = run[k]
    BY <1>6
  <2>2. PICK r : r = run[k]
    OBVIOUS
  <2>3. RunTyped(r) /\ RunAt(r) /\ RunKnows(r) /\ RunKeeps(k, r) /\ Apart(r, run[j])
    BY <1>2, <2>2
  <2>4. RunTyped(run[k])' /\ RunAt(run[k])'
    BY <2>1, <2>2, <2>3 DEF RunTyped, RunAt
  <2>5. ASSUME NEW s \in r.made PROVE ~Committed(s)'
    <3>1. s \in Students /\ ~Committed(s) /\ s \notin run[j].made
      BY <2>3 DEF RunTyped, RunKnows, Apart
    <3>2. s \notin Touched(j)
      BY <1>2, <3>1 DEF Touched, RunKnows
    <3> QED
      BY <1>1, <1>3, <3>1, <3>2 DEF Committed
  <2>6. \A s \in r.cached : s \in r.made \/ s \in r.gone \/ Committed(s)'
    BY <1>5, <2>3 DEF RunTyped, RunKnows
  <2>7. \A a \in r.new : Owner[a] \in r.made \/ Committed(Owner[a])'
    BY <1>4, <1>5, <2>3 DEF RunTyped, RunKnows
  <2>8. r.pc = "attempt" => \A a \in r.hand : Owner[a] \in r.cached
    BY <2>3 DEF RunKnows
  <2>9. RunKnows(run[k])'
    BY <2>1, <2>2, <2>5, <2>6, <2>7, <2>8 DEF RunKnows, Committed
  <2>10. \A a \in r.new : storedBy'[a] = NoJob
    BY <1>1, <2>3 DEF RunTyped, RunKeeps, Apart
  <2>11. \A a \in Stored : a \in Stored'
    BY <1>1, ConstantsAssumption DEF Stored
  <2>12. RunKeeps(k, run[k])'
    BY <2>1, <2>2, <2>3, <2>10, <2>11 DEF RunKeeps
  <2> QED
    BY <2>4, <2>9, <2>12 DEF RunFits
<1>9. \A k, l \in Jobs : k # l => Apart(run[k], run[l])'
  <2>1. "ack" \in Outside
    BY DEF Outside
  <2>2. \A s : Apart(run'[j], s) /\ Apart(s, run'[j])
    BY <1>6, <2>1, FreshRun
  <2>3. \A k \in Jobs \ {j} : run'[k] = run[k]
    BY <1>6
  <2>4. \A k, l \in Jobs : k # l => Apart(run'[k], run'[l])
    BY <2>2, <2>3 DEF ImportInv
  <2> QED
    BY <2>4 DEF Apart
<1>10. ASSUME NEW a \in Stored' PROVE submission'[Owner[a]] \in {"graded", "failed"}
  <2>1. a \in Attempts /\ Owner[a] \in Students
    BY <1>4 DEF Stored
  <2>2. CASE a \in run[j].new
    BY <1>3, <2>1, <2>2 DEF Touched
  <2>3. CASE a \notin run[j].new
    <3>1. a \in Stored
      BY <1>1, <2>1, <2>3 DEF Stored
    <3>2. submission[Owner[a]] \in {"graded", "failed"}
      BY <3>1 DEF ImportInv, AttemptsGradedOrFlagged
    <3>3. Owner[a] \notin run[j].made
      BY <1>2, <3>2 DEF RunKnows, Committed
    <3> QED
      BY <1>3, <2>1, <3>2, <3>3
  <2> QED
    BY <2>2, <2>3
<1>11. AttemptsGradedOrFlagged'
  BY <1>10 DEF AttemptsGradedOrFlagged
<1>12. storedBy' = [a \in Attempts |-> storedBy'[a]] /\ submission' = [s \in Students |-> submission'[s]]
  BY <1>1 DEF SubmissionsAfter
<1>13. run' = [k \in Jobs |-> run'[k]]
  BY <1>6
<1>14. \A k \in Jobs : RunFits(k, run[k])'
  BY <1>7, <1>8
<1> QED
  BY <1>9, <1>11, <1>12, <1>13, <1>14 DEF ImportInv

\* Runs that are on their way learn what they can no longer rely on.
LEMMA DeleteStep ==
    ASSUME ImportInv, DeleteResults
    PROVE  ImportInv'
<1>1. /\ storedBy' = [a \in Attempts |-> NoJob]
      /\ submission' = [s \in Students |-> "none"]
      /\ run' = [k \in Jobs |->
                    IF run[k].pc \in InTransaction
                    THEN [run[k] EXCEPT !.wiped = TRUE,
                                        !.gone = run[k].gone \cup (run[k].cached \ run[k].made)]
                    ELSE run[k]]
      /\ \A k \in Jobs : \A a \in run[k].new : Owner[a] \in run[k].made
  BY DEF DeleteResults
<1>2. \A s \in Students : ~Committed(s)'
  BY <1>1 DEF Committed
<1>3. Stored' = {}
  BY <1>1 DEF Stored
<1>4. ASSUME NEW k \in Jobs
      PROVE  RunFits(k, run[k])' /\ run'[k].made = run[k].made /\ run'[k].new = run[k].new
  <2>1. PICK r : r = run'[k]
    OBVIOUS
  <2>2. RunTyped(run[k]) /\ RunAt(run[k]) /\ RunKnows(run[k])
    BY DEF ImportInv, RunFits
  <2>3. CASE run[k].pc \in InTransaction
    <3>1. r = [run[k] EXCEPT !.wiped = TRUE,
                             !.gone = run[k].gone \cup (run[k].cached \ run[k].made)]
      BY <1>1, <2>1, <2>3
    <3>2. /\ r.pc = run[k].pc /\ r.todo = run[k].todo /\ r.hand = run[k].hand
          /\ r.cached = run[k].cached /\ r.made = run[k].made /\ r.new = run[k].new
          /\ r.gone = run[k].gone \cup (run[k].cached \ run[k].made)
          /\ r.wiped
      BY <2>2, <3>1 DEF RunTyped
    <3>3. r.wiped = TRUE
      BY <2>2, <3>1 DEF RunTyped
    <3>4. r = [pc |-> r.pc, retries |-> r.retries, todo |-> r.todo, hand |-> r.hand,
               cached |-> r.cached, made |-> r.made, new |-> r.new, errors |-> r.errors,
               gone |-> r.gone, wiped |-> r.wiped]
      BY <2>2, <3>1 DEF RunTyped
    <3>5. RunTyped(r)
      BY <2>2, <3>2, <3>3, <3>4 DEF RunTyped
    <3>6. RunAt(r)
      BY <2>2, <3>2 DEF RunAt
    <3>7. \A s \in r.made : ~Committed(s)'
      BY <1>2, <3>5 DEF RunTyped
    <3>8. /\ \A s \in r.cached : s \in r.made \/ s \in r.gone
          /\ r.pc = "attempt" => \A a \in r.hand : Owner[a] \in r.cached
          /\ \A a \in r.new : Owner[a] \in r.made
      BY <1>1, <2>2, <3>2 DEF RunKnows
    <3>9. \A a \in r.new : storedBy'[a] = NoJob
      BY <1>1, <3>5 DEF RunTyped
    <3>10. RunTyped(run[k])' /\ RunAt(run[k])' /\ RunKnows(run[k])' /\ RunKeeps(k, run[k])'
      BY <2>1, <3>2, <3>5, <3>6, <3>7, <3>8, <3>9
         DEF RunTyped, RunAt, RunKnows, RunKeeps, Committed
    <3> QED
      BY <2>1, <3>2, <3>10 DEF RunFits
  <2>4. CASE run[k].pc \notin InTransaction
    <3>1. r = run[k]
      BY <1>1, <2>1, <2>4
    <3>2. r.pc \in Outside /\ r.pc \notin AtRows
      BY <2>2, <2>4, <3>1 DEF RunTyped, PCs, Executing, InTransaction, Outside, AtRows
    <3>3. r.made = {} /\ r.cached = {} /\ r.new = {} /\ r.pc # "attempt"
      BY <2>2, <3>1, <3>2 DEF RunAt, Outside
    <3>4. RunTyped(run[k])' /\ RunAt(run[k])'
      BY <2>1, <2>2, <3>1 DEF RunTyped, RunAt
    <3>5. RunKnows(run[k])' /\ RunKeeps(k, run[k])'
      BY <2>1, <3>2, <3>3 DEF RunKnows, RunKeeps
    <3> QED
      BY <2>1, <3>1, <3>4, <3>5 DEF RunFits
  <2> QED
    BY <2>3, <2>4
<1>5. \A k, l \in Jobs : k # l => Apart(run[k], run[l])'
  BY <1>4 DEF ImportInv, Apart
<1>6. AttemptsGradedOrFlagged'
  BY <1>3 DEF AttemptsGradedOrFlagged
<1>7. /\ run' = [k \in Jobs |-> run'[k]]
      /\ storedBy' = [a \in Attempts |-> storedBy'[a]]
      /\ submission' = [s \in Students |-> submission'[s]]
  BY <1>1
<1> QED
  BY <1>4, <1>5, <1>6, <1>7 DEF ImportInv

LEMMA ImportInit == Init => ImportInv
<1> SUFFICES ASSUME Init PROVE ImportInv
  OBVIOUS
<1>1. run = [j \in Jobs |-> Bare("none", 0)] /\ "none" \in Outside
  BY EmptyIs DEF Init, Outside
<1>2. \A j \in Jobs : RunFits(j, run[j])
  BY <1>1, FreshRun
<1>3. \A j, k \in Jobs : Apart(run[j], run[k])
  BY <1>1, FreshRun
<1>4. AttemptsGradedOrFlagged
  BY DEF Init, AttemptsGradedOrFlagged, Stored
<1> QED
  BY <1>1, <1>2, <1>3, <1>4 DEF Init, ImportInv

LEMMA ImportStep == ImportInv /\ [Next]_vars => ImportInv'
<1> SUFFICES ASSUME ImportInv, [Next]_vars PROVE ImportInv'
  OBVIOUS
<1>0. \A j \in Jobs : RunTyped(run[j]) /\ RunAt(run[j])
  BY DEF ImportInv, RunFits
<1>1. ASSUME NEW j \in Jobs, RequestStep(j) PROVE ImportInv'
  <2>1. CASE Publish(j)
    BY <2>1, RunEnds, EmptyIs DEF Publish, Outside
  <2>2. CASE CreateQueuedJob(j) \/ PublishFails(j) \/ RequestDies(j)
    BY <2>2, RunStays DEF CreateQueuedJob, PublishFails, RequestDies
  <2> QED
    BY <1>1, <2>1, <2>2 DEF RequestStep
<1>2. ASSUME NEW j \in Jobs, NEW p \in {"transient", "permanent", "queued", "ack"},
             Rollback(j, p), UNCHANGED resultVars
      PROVE  ImportInv'
  BY <1>2, RunEnds DEF Rollback, Bare, Outside
<1>3. ASSUME NEW j \in Jobs, run' = [run EXCEPT ![j] = EmptyRun], UNCHANGED resultVars
      PROVE  ImportInv'
  BY <1>3, RunEnds, EmptyIs DEF Outside
\* From the queue to the start, and to an early end.
<1>4. ASSUME NEW j \in Jobs, run[j].pc = "queued", UNCHANGED resultVars,
             NEW p \in {"parse", "permanent"}, Goto(j, p)
      PROVE  ImportInv'
  <2>1. PICK r : r = [run[j] EXCEPT !.pc = p]
    OBVIOUS
  <2>2. run' = [run EXCEPT ![j] = r]
    BY <1>4, <2>1 DEF Goto
  <2>3. /\ r.pc = p /\ r.todo = run[j].todo /\ r.hand = run[j].hand
        /\ r.cached = run[j].cached /\ r.made = run[j].made /\ r.new = run[j].new
    BY <1>0, <2>1 DEF RunTyped
  <2>4. /\ r.todo = {} /\ r.hand = {} /\ r.cached = {} /\ r.made = {} /\ r.new = {}
    BY <1>0, <1>4, <2>3 DEF RunAt, Outside
  <2>a. r = [pc |-> r.pc, retries |-> r.retries, todo |-> r.todo, hand |-> r.hand,
             cached |-> r.cached, made |-> r.made, new |-> r.new, errors |-> r.errors,
             gone |-> r.gone, wiped |-> r.wiped]
    BY <1>0, <2>1 DEF RunTyped
  <2>b. r.wiped = run[j].wiped
    BY <1>0, <2>1 DEF RunTyped
  <2>c. r.wiped \in BOOLEAN
    BY <1>0, <2>b DEF RunTyped
  <2>5. RunTyped(r)
    BY <1>4, <2>3, <2>4, <2>a, <2>c DEF RunTyped, PCs, Executing, InTransaction
  <2>6. RunAt(r) /\ RunKnows(r) /\ RunKeeps(j, r)
    BY <2>3, <2>4 DEF RunAt, RunKnows, RunKeeps, Outside, AtRows
  <2>7. \A s : Apart(r, s) /\ Apart(s, r)
    BY <2>4 DEF Apart
  <2> QED
    BY <1>4, <2>2, <2>5, <2>6, <2>7, RunMoves DEF RunFits
<1>5. ASSUME NEW j \in Jobs, Progress(j) PROVE ImportInv'
  <2>1. CASE StartRun(j)
    BY <1>4, <2>1 DEF StartRun
  <2>2. CASE LoadKnown(j) \/ NextAttempt(j) \/ RowsDone(j)
    BY <2>2, TakeStep
  <2>3. CASE InsertSubmission(j) \/ InsertAttempt(j) \/ FinishRun(j)
    BY <2>3, SubmissionStep, AttemptStep, FinishStep
  <2>4. CASE SubmissionConflict(j)
    BY <1>2, <2>4 DEF SubmissionConflict, PipelineFails
  <2>5. CASE RetryLater(j)
    BY <2>5, RunEnds, EmptyIs DEF RetryLater, Outside
  <2>6. CASE MarkTerminalFailure(j) \/ Acknowledge(j)
    BY <1>3, <2>6 DEF MarkTerminalFailure, Acknowledge
  <2> QED
    BY <1>5, <2>1, <2>2, <2>3, <2>4, <2>5, <2>6 DEF Progress
<1>6. ASSUME NEW j \in Jobs, Trouble(j) PROVE ImportInv'
  <2>1. CASE RejectMessage(j)
    BY <1>4, <2>1 DEF RejectMessage
  <2>2. CASE InvalidSource(j) \/ DatabaseError(j) \/ AbortDeadlock(j)
    BY <1>2, <2>2 DEF InvalidSource, DatabaseError, AbortDeadlock, PipelineFails
  <2>3. CASE RunFailsSilently(j) \/ WorkerLost(j)
    BY <1>2, <2>3 DEF RunFailsSilently, WorkerLost
  <2>4. CASE MessageLost(j) \/ ProcessKilled(j)
    BY <1>3, <2>4 DEF MessageLost, ProcessKilled
  <2> QED
    BY <1>6, <2>1, <2>2, <2>3, <2>4 DEF Trouble
<1>7. ASSUME NEW j \in Jobs, Watch(j) PROVE ImportInv'
  BY <1>7, RunStays DEF Watch, ReaperLoads, ReaperFails
<1>8. CASE UNCHANGED vars
  BY <1>8, RunStays DEF vars
<1> QED
  BY <1>1, <1>5, <1>6, <1>7, <1>8, DeleteStep DEF Next

\* Whatever imports run at the same time, die or are deleted, no submission
\* with a stored attempt is left waiting for its grade.
THEOREM AttemptsAreGraded == Spec => []AttemptsGradedOrFlagged
<1>1. ImportInv => AttemptsGradedOrFlagged
  BY DEF ImportInv
<1> QED
  BY <1>1, ImportInit, ImportStep, PTL DEF Spec

-----------------------------------------------------------------------------
\* What ReportsWhatItStored says of one step of one job.
ReportedBy(j) ==
    run[j].pc = "grade" /\ run'[j].pc = "ack" =>
        /\ processed'[j] = Cardinality({a \in Attempts : storedBy[a] # storedBy'[a]})
        /\ \A a \in Attempts : storedBy[a] # storedBy'[a] => storedBy[a] = NoJob
        /\ status'[j] = "succeeded" =>
              run[j].wiped \/ \A a \in File[j] : storedBy'[a] # NoJob

RowsTyped ==
    processed = [j \in Jobs |-> processed[j]] /\ status = [j \in Jobs |-> status[j]]

LEMMA RowsStayTyped == RowsTyped /\ [Next]_vars => RowsTyped'
<1> SUFFICES ASSUME RowsTyped, [Next]_vars PROVE RowsTyped'
  OBVIOUS
<1>1. ASSUME NEW j \in Jobs, RequestStep(j) \/ Watch(j) PROVE RowsTyped'
  BY <1>1 DEF RequestStep, CreateQueuedJob, Publish, PublishFails, RequestDies, Watch,
     ReaperLoads, ReaperFails, SetStatus, jobVars, RowsTyped
<1>2. ASSUME NEW j \in Jobs, Progress(j) PROVE RowsTyped'
  <2>1. CASE StartRun(j) \/ LoadKnown(j) \/ NextAttempt(j) \/ RowsDone(j)
    BY <2>1 DEF StartRun, LoadKnown, NextAttempt, RowsDone, SetStatus, jobVars, RowsTyped
  <2>2. CASE InsertSubmission(j) \/ InsertAttempt(j) \/ FinishRun(j)
    BY <2>2 DEF InsertSubmission, InsertAttempt, FinishRun, SetStatus, jobVars, RowsTyped
  <2>3. CASE SubmissionConflict(j) \/ RetryLater(j) \/ MarkTerminalFailure(j) \/ Acknowledge(j)
    BY <2>3 DEF SubmissionConflict, PipelineFails, RetryLater, MarkTerminalFailure,
       Acknowledge, SetStatus, jobVars, RowsTyped
  <2> QED
    BY <1>2, <2>1, <2>2, <2>3 DEF Progress
<1>3. ASSUME NEW j \in Jobs, Trouble(j) PROVE RowsTyped'
  BY <1>3 DEF Trouble, RejectMessage, InvalidSource, DatabaseError, RunFailsSilently,
     AbortDeadlock, MessageLost, WorkerLost, ProcessKilled, PipelineFails, SetStatus,
     jobVars, RowsTyped
<1>4. CASE DeleteResults \/ UNCHANGED vars
  BY <1>4 DEF DeleteResults, vars, jobVars, RowsTyped
<1> QED
  BY <1>1, <1>2, <1>3, <1>4 DEF Next

\* Only the last commit of its own run takes a job from grading to the end.
LEMMA OnlyItsEnd ==
    ASSUME ImportInv, [Next]_vars, NEW j \in Jobs, run[j].pc = "grade", run'[j].pc = "ack"
    PROVE  FinishRun(j)
<1>1. run = [k \in Jobs |-> run[k]]
  BY DEF ImportInv
<1>2. \A p, n : Bare(p, n).pc = p
  BY BareIs
<1>3. ASSUME NEW k \in Jobs, RequestStep(k) \/ Watch(k) PROVE FALSE
  BY <1>1, <1>2, <1>3, EmptyIs DEF RequestStep, CreateQueuedJob, Publish, PublishFails,
     RequestDies, Watch, ReaperLoads, ReaperFails
<1>4. ASSUME NEW k \in Jobs \ {j}, Progress(k) \/ Trouble(k) PROVE FALSE
  <2>1. run'[j] = run[j]
    <3>1. CASE Progress(k)
      <4>1. CASE StartRun(k) \/ LoadKnown(k) \/ NextAttempt(k) \/ RowsDone(k)
        BY <1>1, <4>1 DEF StartRun, LoadKnown, NextAttempt, RowsDone, Goto
      <4>2. CASE InsertSubmission(k) \/ InsertAttempt(k) \/ FinishRun(k)
        BY <1>1, <4>2 DEF InsertSubmission, InsertAttempt, FinishRun, Rollback
      <4>3. CASE SubmissionConflict(k) \/ RetryLater(k) \/ MarkTerminalFailure(k)
                 \/ Acknowledge(k)
        BY <1>1, <4>3 DEF SubmissionConflict, PipelineFails, Rollback, RetryLater,
           MarkTerminalFailure, Acknowledge
      <4> QED
        BY <3>1, <4>1, <4>2, <4>3 DEF Progress
    <3>2. CASE Trouble(k)
      BY <1>1, <3>2 DEF Trouble, RejectMessage, InvalidSource, DatabaseError,
         RunFailsSilently, AbortDeadlock, MessageLost, WorkerLost, ProcessKilled,
         PipelineFails, Rollback, Goto
    <3> QED
      BY <1>4, <3>1, <3>2
  <2> QED
    BY <2>1
<1>5. ASSUME Progress(j) PROVE FinishRun(j)
  BY <1>5 DEF Progress, StartRun, LoadKnown, RowsDone, NextAttempt, InsertSubmission,
     SubmissionConflict, InsertAttempt, RetryLater, MarkTerminalFailure, Acknowledge
<1>6. ASSUME NEW p, Rollback(j, p) PROVE p = "ack"
  BY <1>1, <1>2, <1>6 DEF Rollback, Bare
<1>7. ASSUME Trouble(j) PROVE FALSE
  <2>1. CASE RejectMessage(j) \/ InvalidSource(j) \/ MessageLost(j)
    BY <2>1 DEF RejectMessage, InvalidSource, MessageLost
  <2>2. CASE DatabaseError(j) \/ RunFailsSilently(j) \/ AbortDeadlock(j) \/ WorkerLost(j)
    BY <1>6, <2>2 DEF DatabaseError, RunFailsSilently, AbortDeadlock, WorkerLost, PipelineFails
  <2>3. CASE ProcessKilled(j)
    BY <1>1, <1>2, <2>3, EmptyIs DEF ProcessKilled
  <2> QED
    BY <1>7, <2>1, <2>2, <2>3 DEF Trouble
<1>8. CASE DeleteResults
  <2>1. /\ run[j].pc \notin {"ack"} /\ run[j].pc = "grade"
        /\ run' = [k \in Jobs |->
              IF run[k].pc \in InTransaction
              THEN [run[k] EXCEPT !.wiped = TRUE,
                                  !.gone = @ \cup (run[k].cached \ run[k].made)]
              ELSE run[k]]
    BY <1>8 DEF DeleteResults
  <2>2. run'[j] = [run[j] EXCEPT !.wiped = TRUE,
                                 !.gone = @ \cup (run[j].cached \ run[j].made)]
    BY <2>1 DEF InTransaction
  <2>3. run'[j].pc = run[j].pc
    BY <2>2 DEF ImportInv, RunFits, RunTyped
  <2> QED
    BY <2>3
<1> QED
  BY <1>3, <1>4, <1>5, <1>7, <1>8 DEF Next, vars

\* What the last commit reports of the rows and leaves in the exam.
LEMMA EndReports ==
    ASSUME ImportInv, RowsTyped, NEW j \in Jobs, FinishRun(j)
    PROVE  ReportedBy(j)
<1>1. PICK failed \in SUBSET Touched(j) :
          LET errors == run[j].errors \cup IF failed = {} THEN {} ELSE {"grading"}
          IN  /\ run[j].pc = "grade"
              /\ storedBy' = [a \in Attempts |-> IF a \in run[j].new THEN j ELSE storedBy[a]]
              /\ processed' = [processed EXCEPT ![j] = RowsReported(j)]
              /\ SetStatus(j, Verdict(RowsReported(j), errors))
  BY DEF FinishRun
<1>2. /\ run[j].new \subseteq Attempts
      /\ run[j].hand = {} /\ run[j].todo = {}
      /\ \A a \in run[j].new : storedBy[a] = NoJob
      /\ ~run[j].wiped /\ run[j].errors = {} =>
             \A a \in File[j] : a \in Stored \/ a \in run[j].new
  BY <1>1 DEF ImportInv, RunFits, RunTyped, RunAt, RunKeeps, AtRows
<1>3. {a \in Attempts : storedBy[a] # storedBy'[a]} = run[j].new
  BY <1>1, <1>2, ConstantsAssumption
<1>4. processed'[j] = Cardinality(run[j].new)
  BY <1>1 DEF RowsTyped, RowsReported
<1>5. ASSUME status'[j] = "succeeded", ~run[j].wiped, NEW a \in File[j]
      PROVE  storedBy'[a] # NoJob
  <2>1. PICK errors : errors = run[j].errors \cup IF failed = {} THEN {} ELSE {"grading"}
    OBVIOUS
  <2>2. Verdict(RowsReported(j), errors) = "succeeded"
    BY <1>1, <1>5, <2>1 DEF SetStatus, RowsTyped
  <2>3. errors = {}
    BY <2>2 DEF Verdict
  <2>4. run[j].errors = {}
    BY <2>1, <2>3
  <2>5. a \in Stored \/ a \in run[j].new
    BY <1>2, <1>5, <2>4
  <2> QED
    BY <1>1, <1>2, <2>5, ConstantsAssumption DEF Stored
<1> QED
  BY <1>2, <1>3, <1>4, <1>5 DEF ReportedBy

\* rows_processed counts what the run itself added to the exam, nothing it
\* found there; and a job that ends SUCCEEDED leaves its whole file in the
\* exam, whatever other imports did meanwhile, unless results were deleted.
THEOREM ReportsAreTrue == Spec => ReportsWhatItStored
<1>1. Init => RowsTyped
  BY DEF Init, RowsTyped
<1>2. ImportInv /\ RowsTyped /\ [Next]_vars =>
          [\A j \in Jobs :
              run[j].pc = "grade" /\ run'[j].pc = "ack" =>
                  /\ processed'[j] = Cardinality({a \in Attempts : storedBy[a] # storedBy'[a]})
                  /\ \A a \in Attempts : storedBy[a] # storedBy'[a] => storedBy[a] = NoJob
                  /\ status'[j] = "succeeded" =>
                        run[j].wiped \/ \A a \in File[j] : storedBy'[a] # NoJob]_vars
  <2>1. ImportInv /\ RowsTyped /\ [Next]_vars => \A j \in Jobs : ReportedBy(j)
    BY OnlyItsEnd, EndReports DEF ReportedBy
  <2> QED
    BY <2>1 DEF ReportedBy
<1> QED
  BY <1>1, <1>2, ImportInit, ImportStep, RowsStayTyped, PTL DEF Spec, ReportsWhatItStored

-----------------------------------------------------------------------------
(***************************************************************************)
(* The grades of a submission.  A review and an import write what they     *)
(* computed from what they read, and others may have committed meanwhile.  *)
(* What they read stays true in one respect: what was graded is graded     *)
(* (Seen).  So an attempt is graded as a whole or not at all (WholeOrNot), *)
(* and a transaction that nobody overtook leaves columns that follow from  *)
(* its own grades (Columns).                                               *)
(***************************************************************************)
\* What a transaction has read.
Seen(t) ==
    /\ t.grade \in [Answers -> Grades]
    /\ \A a \in Answers : t.grade[a] # NoGrade => grade[a] # NoGrade

\* A request asks for what its handler may do with the grades it read.
CallSound(c) ==
    /\ Seen(c)
    /\ c.op \in {"approve", "override", "regrade", "bulk"}
    /\ c.on \in SUBSET Answers /\ c.on # {} /\ c.points \in 0..MaxPoints
    /\ \A a \in c.on : c.grade[a] # NoGrade
    /\ c.op = "bulk" => \A a \in c.on : c.grade[a].status = "proposed"
    /\ c.op = "regrade" => \A a \in c.on : c.grade[a].status # "manual_override"
    /\ c.op \in {"approve", "override"} => \E a \in Answers : c.on = {a}

ImportSound(i) ==
    /\ Seen(i)
    /\ i.new \in SUBSET AllAttempts /\ i.new # {} /\ i.attempts \in SUBSET attempts

WholeOrNot == \A at \in AllAttempts : GradedWhole(at) \/ Ungraded(at)

\* When nothing mixed was written: nothing was imported, or grading failed last,
\* or the submission follows.
Columns ==
    \/ attempts = {} /\ sub = NewSubmission
    \/ sub.status = "import_grading_failed"
    \/ attempts # {} /\ sub = Aggregate(grade, attempts)

SubShape == sub = [graded |-> sub.graded, total |-> sub.total, status |-> sub.status]

GradingInv ==
    /\ attempts \in SUBSET AllAttempts /\ grade \in [Answers -> Grades]
    /\ \A a \in Answers : grade[a] # NoGrade => a[1] \in attempts
    /\ WholeOrNot
    /\ SubShape
    /\ ~mixed => Columns
    /\ mixed \in BOOLEAN
    /\ DOMAIN call = Processes /\ DOMAIN import = Workers
    /\ \A p \in Processes : \A c \in call[p] : CallSound(c)
    /\ \A w \in Workers : \A i \in import[w] : ImportSound(i)

-----------------------------------------------------------------------------
\* Of two numbers the first decides, then the second.
IsForemost(S, f, h, at) ==
    /\ at \in S
    /\ \A other \in S : f[other] < f[at] \/ (f[other] = f[at] /\ h[other] <= h[at])

LEMMA Foremost ==
    ASSUME NEW S, IsFiniteSet(S), S # {}, NEW f \in [S -> Int], NEW h \in [S -> Int]
    PROVE  \E at : IsForemost(S, f, h, at)
<1> DEFINE T == {f[at] : at \in S}
           top == {at \in S : f[at] = Max(T)}
           U == {h[at] : at \in top}
<1>1. T \subseteq Int /\ T # {} /\ IsFiniteSet(T)
  BY FiniteImage
<1>2. Max(T) \in T /\ \A y \in T : Max(T) >= y
  <2> HIDE DEF T
  <2> QED
    BY <1>1, LargestOfFinite
<1>3. \A other \in S : f[other] \in T
  OBVIOUS
<1>4. top \subseteq S /\ top # {}
  BY <1>2
<1>5. \A other \in S : f[other] = Max(T) => other \in top
  OBVIOUS
<1>6. \A at \in top : f[at] = Max(T)
  OBVIOUS
<1> HIDE DEF T, top
<1>7. IsFiniteSet(top)
  BY <1>4, FS_Subset
<1>8. U \subseteq Int /\ U # {}
  BY <1>4
<1>9. IsFiniteSet(U)
  BY <1>7, FiniteImage
<1>10. Max(U) \in U /\ \A y \in U : Max(U) >= y
  <2> HIDE DEF U
  <2> QED
    BY <1>8, <1>9, LargestOfFinite
<1>11. PICK at \in top : h[at] = Max(U)
  BY <1>10
<1>12. \A other \in top : h[other] \in U
  OBVIOUS
<1>13. ASSUME NEW other \in S
       PROVE  f[other] < f[at] \/ (f[other] = f[at] /\ h[other] <= h[at])
  <2>1. /\ f[at] \in Int /\ f[other] \in Int /\ h[at] \in Int /\ h[other] \in Int
        /\ at \in S
    BY <1>4
  <2>2. f[at] = Max(T) /\ f[at] >= f[other]
    BY <1>2, <1>3, <1>6
  <2>3. f[other] = f[at] => h[other] <= h[at]
    BY <1>5, <1>10, <1>11, <1>12, <2>1, <2>2
  <2> QED
    BY <2>1, <2>2, <2>3
<1> QED
  BY <1>4, <1>11, <1>13 DEF IsForemost

\* The attempt that counts is one of those there are.
LEMMA PickedIsThere ==
    ASSUME NEW g \in [Answers -> Grades], NEW S \in SUBSET AllAttempts, S # {}
    PROVE  PickAttempt(g, S) \in S
<1>1. IsFiniteSet(S) /\ S \subseteq Int
  <2>1. IsFiniteSet(AllAttempts) /\ AllAttempts \subseteq Nat
    BY GradingAssumption
  <2>2. IsFiniteSet(S)
    BY <2>1, FS_Subset
  <2> QED
    BY <2>1, <2>2
<1>2. Date \in [AllAttempts -> Nat] /\ Strategy \in {"first", "best", "latest"}
  BY GradingAssumption
<1>3. \A at \in S : PointsOf(g, at) \in Nat
  <2> TAKE at \in S
  <2> DEFINE points == [q \in Questions |-> g[<<at, q>>].points]
  <2>1. PointsOf(g, at) = SumOver(points, Questions)
    BY DEF PointsOf, SumOver
  <2>2. \A q \in Questions : points[q] \in Nat
    <3> TAKE q \in Questions
    <3>1. g[<<at, q>>] \in Grades
      BY DEF Answers
    <3>2. \A x \in Grades : x.points \in Nat
      BY GradingAssumption DEF Grades, NoGrade
    <3> QED
      BY <3>1, <3>2
  <2> HIDE DEF points
  <2>3. SumOver(points, Questions) \in Nat
    BY <2>2, GradingAssumption, SumIsNatural
  <2> QED
    BY <2>1, <2>3
<1> DEFINE Order(at, other) ==
             CASE Strategy = "first" -> \/ Date[at] < Date[other]
                                        \/ Date[at] = Date[other] /\ at <= other
               [] Strategy = "latest" -> \/ Date[other] < Date[at]
                                         \/ Date[other] = Date[at] /\ other <= at
               [] Strategy = "best" -> \/ PointsOf(g, other) < PointsOf(g, at)
                                       \/ PointsOf(g, other) = PointsOf(g, at) /\ at <= other
<1>4. \E at \in S : \A other \in S : Order(at, other)
  <2>1. CASE Strategy = "first"
    <3> DEFINE f == [at \in S |-> 0 - Date[at]]
               h == [at \in S |-> 0 - at]
    <3>1. f \in [S -> Int] /\ h \in [S -> Int]
      BY <1>1, <1>2
    <3>2. \A at \in S : f[at] = 0 - Date[at] /\ h[at] = 0 - at /\ Date[at] \in Int /\ at \in Int
      BY <1>1, <1>2
    <3> HIDE DEF f, h
    <3>3. PICK at : IsForemost(S, f, h, at)
      BY <1>1, <3>1, Foremost
    <3>4. \A other \in S : Date[at] < Date[other] \/ (Date[at] = Date[other] /\ at <= other)
      BY <3>2, <3>3 DEF IsForemost
    <3> QED
      BY <2>1, <3>3, <3>4 DEF IsForemost
  <2>2. CASE Strategy = "latest"
    <3> DEFINE f == [at \in S |-> Date[at]]
               h == [at \in S |-> at]
    <3>1. f \in [S -> Int] /\ h \in [S -> Int]
      BY <1>1, <1>2
    <3>2. \A at \in S : f[at] = Date[at] /\ h[at] = at
      OBVIOUS
    <3> HIDE DEF f, h
    <3>3. PICK at : IsForemost(S, f, h, at)
      BY <1>1, <3>1, Foremost
    <3>4. \A other \in S : Date[other] < Date[at] \/ (Date[other] = Date[at] /\ other <= at)
      BY <3>2, <3>3 DEF IsForemost
    <3> QED
      BY <2>2, <3>3, <3>4 DEF IsForemost
  <2>3. CASE Strategy = "best"
    <3> DEFINE f == [at \in S |-> PointsOf(g, at)]
               h == [at \in S |-> 0 - at]
    <3>1. f \in [S -> Int] /\ h \in [S -> Int]
      BY <1>1, <1>3
    <3>2. \A at \in S : f[at] = PointsOf(g, at) /\ h[at] = 0 - at /\ at \in Int
      BY <1>1
    <3> HIDE DEF f, h
    <3>3. PICK at : IsForemost(S, f, h, at)
      BY <1>1, <3>1, Foremost
    <3>4. \A other \in S : \/ PointsOf(g, other) < PointsOf(g, at)
                           \/ PointsOf(g, other) = PointsOf(g, at) /\ at <= other
      BY <3>2, <3>3 DEF IsForemost
    <3> QED
      BY <2>3, <3>3, <3>4 DEF IsForemost
  <2> QED
    BY <1>2, <2>1, <2>2, <2>3
<1>5. PickAttempt(g, S) = CHOOSE at \in S : \A other \in S : Order(at, other)
  BY DEF PickAttempt
<1> HIDE DEF Order
<1> QED
  BY <1>4, <1>5, Zenon

\* What a transaction writes: every grade is the one it computed, or where it
\* changed nothing the one that is there, or a column from each.
LEMMA GradesMerge ==
    ASSUME GradingInv, NEW was \in [Answers -> Grades], NEW g \in [Answers -> Grades],
           \A a \in Answers : was[a] # NoGrade => grade[a] # NoGrade,
           \A a \in Answers : g[a] = NoGrade => was[a] = NoGrade
    PROVE  /\ GradesAfter(was, g) \in [Answers -> Grades]
           /\ \A a \in Answers : grade[a] # NoGrade => GradesAfter(was, g)[a] # NoGrade
           /\ \A a \in Answers : g[a] # NoGrade => GradesAfter(was, g)[a] # NoGrade
           /\ \A a \in Answers : g[a] = was[a] => GradesAfter(was, g)[a] = grade[a]
           /\ \A a \in Answers : g[a] # NoGrade /\ g[a].points = was[a].points
                  /\ was[a] # NoGrade => GradesAfter(was, g)[a].points = grade[a].points
<1> DEFINE after == GradesAfter(was, g)
<1>1. \A x \in Grades : /\ x = [status |-> x.status, points |-> x.points]
                        /\ \/ x = NoGrade
                           \/ /\ x.status \in {"proposed"} \cup Reviewed
                              /\ x.points \in 0..MaxPoints
  BY DEF Grades, NoGrade
<1>2. \A st \in {"proposed"} \cup Reviewed, n \in 0..MaxPoints :
          /\ [status |-> st, points |-> n] \in Grades
          /\ [status |-> st, points |-> n] # NoGrade
  BY DEF Grades, NoGrade, Reviewed
<1>3. ASSUME NEW a \in Answers
      PROVE  /\ after[a] \in Grades
             /\ grade[a] # NoGrade \/ g[a] # NoGrade => after[a] # NoGrade
             /\ g[a] = was[a] => after[a] = grade[a]
             /\ g[a] # NoGrade /\ g[a].points = was[a].points /\ was[a] # NoGrade
                    => after[a].points = grade[a].points
  <2>1. was[a] \in Grades /\ g[a] \in Grades /\ grade[a] \in Grades
    BY DEF GradingInv
  <2>2. CASE was[a] = NoGrade /\ g[a] = NoGrade
    <3>1. after[a] = grade[a]
      BY <2>2 DEF GradesAfter
    <3> QED
      BY <2>1, <2>2, <3>1
  <2>3. CASE was[a] = NoGrade /\ g[a] # NoGrade
    <3>1. after[a] = g[a]
      BY <2>3 DEF GradesAfter
    <3> QED
      BY <2>1, <2>3, <3>1
  <2>4. CASE was[a] # NoGrade
    <3>1. g[a] # NoGrade /\ grade[a] # NoGrade
      BY <2>4
    <3> DEFINE st == Changed(was[a].status, g[a].status, grade[a].status)
               n == Changed(was[a].points, g[a].points, grade[a].points)
    <3>2. after[a] = [status |-> st, points |-> n]
      BY <2>4 DEF GradesAfter
    <3>3. st \in {"proposed"} \cup Reviewed /\ n \in 0..MaxPoints
      BY <1>1, <2>1, <3>1 DEF Changed
    <3>4. g[a] = was[a] => st = grade[a].status /\ n = grade[a].points
      BY DEF Changed
    <3>5. g[a].points = was[a].points => n = grade[a].points
      BY DEF Changed
    <3>6. grade[a] = [status |-> grade[a].status, points |-> grade[a].points]
      BY <1>1, <2>1
    <3> HIDE DEF st, n
    <3>7. after[a] \in Grades /\ after[a] # NoGrade
      BY <1>2, <3>2, <3>3
    <3>8. after[a].points = n
      BY <3>2
    <3> HIDE DEF after
    <3>9. g[a] = was[a] => after[a] = grade[a]
      BY <3>2, <3>4, <3>6
    <3> QED
      BY <3>5, <3>7, <3>8, <3>9
  <2> QED
    BY <2>2, <2>3, <2>4
<1>4. after = [a \in Answers |-> after[a]]
  BY DEF GradesAfter
<1> HIDE DEF after
<1>5. after \in [Answers -> Grades]
  BY <1>3, <1>4
<1> QED
  BY <1>3, <1>5 DEF after

\* What a transaction computes from what is still there replaces it.
LEMMA NothingBetween ==
    ASSUME grade \in [Answers -> Grades], NEW g \in [Answers -> Grades],
           \A a \in Answers : g[a] = NoGrade => grade[a] = NoGrade
    PROVE  GradesAfter(grade, g) = g
<1>1. ASSUME NEW a \in Answers PROVE GradesAfter(grade, g)[a] = g[a]
  <2>1. g[a] = [status |-> g[a].status, points |-> g[a].points]
    BY DEF Grades, NoGrade
  <2>2. CASE grade[a] = NoGrade
    BY <2>2 DEF GradesAfter
  <2>3. CASE grade[a] # NoGrade
    <3>1. GradesAfter(grade, g)[a] = [status |-> g[a].status, points |-> g[a].points]
      BY <2>3 DEF GradesAfter, Changed
    <3> QED
      BY <2>1, <3>1
  <2> QED
    BY <2>2, <2>3
<1>2. DOMAIN GradesAfter(grade, g) = Answers /\ DOMAIN g = Answers
  BY DEF GradesAfter
<1> QED
  BY <1>1, <1>2 DEF GradesAfter

\* The same for the columns of the submission; what changes none writes none.
LEMMA ColumnsWritten ==
    /\ \A g, S : SubAfter(sub, Aggregate(g, S)) = Aggregate(g, S)
    /\ SubShape => \A was : SubAfter(was, was) = sub
    /\ \A was, new : SubAfter(was, new) =
          [graded |-> SubAfter(was, new).graded, total |-> SubAfter(was, new).total,
           status |-> SubAfter(was, new).status]
  BY DEF SubAfter, Changed, Aggregate, SubShape

-----------------------------------------------------------------------------
\* What is graded stays graded, so what was read may still be relied on.
LEMMA StaysSeen ==
    ASSUME NEW t, Seen(t), \A a \in Answers : grade[a] # NoGrade => grade'[a] # NoGrade
    PROVE  Seen(t)'
  BY DEF Seen, Answers, Grades, NoGrade, Reviewed

\* Nothing is there at first.
LEMMA GradingStarts == GradingInit => GradingInv
<1> SUFFICES ASSUME GradingInit PROVE GradingInv
  OBVIOUS
<1>1. \A a \in Answers : grade[a] = NoGrade
  BY DEF GradingInit
<1>2. grade \in [Answers -> Grades] /\ attempts = {}
  BY DEF GradingInit, Grades
<1>3. WholeOrNot
  <2> SUFFICES ASSUME NEW at \in AllAttempts PROVE Ungraded(at)
    BY DEF WholeOrNot
  <2>1. \A q \in Questions : <<at, q>> \in Answers
    BY DEF Answers
  <2> QED
    BY <1>1, <2>1 DEF Ungraded
<1>4. SubShape /\ Columns
  BY DEF GradingInit, SubShape, Columns, NewSubmission
<1> QED
  BY <1>1, <1>2, <1>3, <1>4 DEF GradingInit, GradingInv

\* Somebody begins a review of what is graded.
LEMMA ReadStep ==
    ASSUME GradingInv, NEW p \in Processes, NEW c, Read(p, c),
           c.op \in {"approve", "override", "regrade", "bulk"},
           c.on \in SUBSET Answers, c.on # {}, c.points \in 0..MaxPoints,
           \A a \in c.on : grade[a] # NoGrade,
           c.op = "bulk" => \A a \in c.on : grade[a].status = "proposed",
           c.op = "regrade" => \A a \in c.on : grade[a].status # "manual_override",
           c.op \in {"approve", "override"} => \E a \in Answers : c.on = {a}
    PROVE  GradingInv'
<1> DEFINE r == [op |-> c.op, on |-> c.on, points |-> c.points, note |-> c.note,
                 attempts |-> attempts, grade |-> grade, sub |-> sub]
<1>1. CallSound(r)
  BY DEF CallSound, Seen, GradingInv
<1>2. /\ call' = [call EXCEPT ![p] = {r}]
      /\ attempts' = attempts /\ grade' = grade /\ sub' = sub
      /\ import' = import /\ mixed' = mixed
  BY DEF Read
<1> HIDE DEF r
<1>3. DOMAIN call' = Processes /\ \A q \in Processes : \A d \in call'[q] : d = r \/ d \in call[q]
  <2>1. DOMAIN call = Processes
    BY DEF GradingInv
  <2> QED
    BY <1>2, <2>1
<1>4. \A q \in Processes : \A d \in call'[q] : CallSound(d)'
  <2> TAKE q \in Processes
  <2> TAKE d \in call'[q]
  <2>1. CallSound(d)
    BY <1>1, <1>3 DEF GradingInv
  <2> QED
    BY <1>2, <2>1 DEF CallSound, Seen
<1>5. (WholeOrNot /\ SubShape)' /\ (Columns => Columns')
  BY <1>2 DEF GradingInv, WholeOrNot, GradedWhole, Ungraded, SubShape, Columns
<1>6. \A w \in Workers : \A i \in import'[w] : ImportSound(i)'
  BY <1>2 DEF GradingInv, ImportSound, Seen
<1> QED
  BY <1>2, <1>3, <1>4, <1>5, <1>6 DEF GradingInv

\* So does every request there is.
LEMMA AskedStep ==
    ASSUME GradingInv, NEW p \in Processes,
           \/ \E a \in Answers : ReviewOne(p, a)
           \/ BulkApprove(p)
           \/ \E q \in Questions : Regrade(p, q)
    PROVE  GradingInv'
<1>1. CASE \E a \in Answers : ReviewOne(p, a)
  <2>1. PICK a \in Answers : ReviewOne(p, a)
    BY <1>1
  <2>2. grade[a] # NoGrade
    BY <2>1 DEF ReviewOne
  <2>3. CASE Read(p, Request("approve", {a}))
    <3> DEFINE c == Request("approve", {a})
    <3>1. c.op = "approve" /\ c.on = {a} /\ c.points = 0
      BY DEF Request
    <3>2. Read(p, c) /\ 0 \in 0..MaxPoints
      BY <2>3, GradingAssumption
    <3> HIDE DEF c
    <3> QED
      BY <2>2, <3>1, <3>2, ReadStep
  <2>4. CASE \E n \in OverridePoints, note \in BOOLEAN :
                Read(p, [op |-> "override", on |-> {a}, points |-> n, note |-> note])
    <3>1. PICK n \in OverridePoints, note \in BOOLEAN :
                Read(p, [op |-> "override", on |-> {a}, points |-> n, note |-> note])
      BY <2>4
    <3> DEFINE c == [op |-> "override", on |-> {a}, points |-> n, note |-> note]
    <3>2. c.op = "override" /\ c.on = {a} /\ c.points \in 0..MaxPoints
      BY DEF OverridePoints
    <3>3. Read(p, c)
      BY <3>1
    <3> HIDE DEF c
    <3> QED
      BY <2>2, <3>2, <3>3, ReadStep
  <2> QED
    BY <2>1, <2>3, <2>4 DEF ReviewOne
<1>2. CASE BulkApprove(p)
  <2>1. PICK S \in SUBSET {a \in Answers : grade[a].status = "proposed"} :
            S # {} /\ Read(p, Request("bulk", S))
    BY <1>2 DEF BulkApprove
  <2> DEFINE c == Request("bulk", S)
  <2>2. c.op = "bulk" /\ c.on = S /\ c.points = 0
    BY DEF Request
  <2>3. Read(p, c) /\ 0 \in 0..MaxPoints
    BY <2>1, GradingAssumption
  <2> HIDE DEF c
  <2>4. \A a \in S : a \in Answers /\ grade[a].status = "proposed" /\ grade[a] # NoGrade
    BY DEF NoGrade
  <2> QED
    BY <2>1, <2>2, <2>3, <2>4, ReadStep
<1>3. CASE \E q \in Questions : Regrade(p, q)
  <2>1. PICK q \in Questions : Regrade(p, q)
    BY <1>3
  <2>2. PICK S : S = {a \in attempts \X {q} : Regradable(a)}
    OBVIOUS
  <2> DEFINE c == Request("regrade", S)
  <2>3. c.op = "regrade" /\ c.on = S /\ c.points = 0
    BY DEF Request
  <2>4. S # {} /\ Read(p, c) /\ 0 \in 0..MaxPoints
    BY <2>1, <2>2, GradingAssumption DEF Regrade
  <2> HIDE DEF c
  <2>5. \A a \in S : a \in Answers /\ grade[a] # NoGrade /\ grade[a].status # "manual_override"
    BY <2>2 DEF Regradable, Answers, GradingInv
  <2> QED
    BY <2>3, <2>4, <2>5, ReadStep
<1> QED
  BY <1>1, <1>2, <1>3

\* The grades a handler computes: the same answers are graded, and outside its
\* own ones nothing changes.
LEMMA ReviewsGiveGrades ==
    ASSUME NEW c, CallSound(c), NEW g \in NewGrades(c)
    PROVE  /\ g \in [Answers -> Grades]
           /\ \A a \in Answers : g[a] = NoGrade <=> c.grade[a] = NoGrade
           /\ \A a \in Answers \ c.on : g[a] = c.grade[a]
           /\ c.op = "approve" => \A a \in c.on : g[a].points = c.grade[a].points
<1>1. c.grade \in [Answers -> Grades] /\ MaxPoints \in Nat
  BY GradingAssumption DEF CallSound, Seen
<1>2. \A a \in Answers : c.grade[a] # NoGrade => c.grade[a].points \in 0..MaxPoints
  BY <1>1 DEF Grades
<1>3. CASE c.op = "regrade"
  <2>1. PICK n \in [c.on -> 0..MaxPoints] :
            g = [a \in Answers |-> IF a \in c.on THEN [status |-> "proposed", points |-> n[a]]
                                   ELSE c.grade[a]]
    BY <1>3 DEF NewGrades
  <2>2. ASSUME NEW a \in Answers
        PROVE  /\ g[a] \in Grades /\ (g[a] = NoGrade <=> c.grade[a] = NoGrade)
               /\ a \notin c.on => g[a] = c.grade[a]
    <3>1. CASE a \in c.on
      <4>1. g[a] = [status |-> "proposed", points |-> n[a]] /\ n[a] \in 0..MaxPoints
        BY <2>1, <3>1
      <4>2. g[a].status = "proposed"
        BY <4>1
      <4> QED
        BY <1>1, <3>1, <4>1, <4>2 DEF Grades, NoGrade, CallSound
    <3>2. CASE a \notin c.on
      BY <1>1, <2>1, <3>2
    <3> QED
      BY <3>1, <3>2
  <2>3. DOMAIN g = Answers /\ g = [a \in Answers |-> g[a]]
    BY <2>1
  <2> QED
    BY <1>3, <2>2, <2>3
<1>4. CASE c.op # "regrade"
  <2>1. g = [a \in Answers |->
                IF a \notin c.on THEN c.grade[a]
                ELSE IF c.op = "override"
                     THEN [status |-> "manual_override", points |-> c.points]
                ELSE [status |-> "approved", points |-> c.grade[a].points]]
    BY <1>4 DEF NewGrades
  <2>2. ASSUME NEW a \in Answers
        PROVE  /\ g[a] \in Grades /\ (g[a] = NoGrade <=> c.grade[a] = NoGrade)
               /\ a \notin c.on => g[a] = c.grade[a]
               /\ a \in c.on /\ c.op = "approve" => g[a].points = c.grade[a].points
    <3>1. CASE a \in c.on /\ c.op = "override"
      <4>1. g[a] = [status |-> "manual_override", points |-> c.points]
        BY <2>1, <3>1
      <4>2. g[a].status = "manual_override"
        BY <4>1
      <4> QED
        BY <1>1, <3>1, <4>1, <4>2 DEF Grades, NoGrade, CallSound, Reviewed
    <3>2. CASE a \in c.on /\ c.op # "override"
      <4>1. g[a] = [status |-> "approved", points |-> c.grade[a].points]
        BY <1>1, <2>1, <3>2
      <4>2. g[a].status = "approved" /\ g[a].points = c.grade[a].points
        BY <4>1
      <4>3. c.grade[a] # NoGrade
        BY <3>2 DEF CallSound
      <4> QED
        BY <1>2, <3>2, <4>1, <4>2, <4>3 DEF Grades, NoGrade, Reviewed
    <3>3. CASE a \notin c.on
      BY <1>1, <2>1, <3>3
    <3> QED
      BY <3>1, <3>2, <3>3
  <2>3. DOMAIN g = Answers /\ g = [a \in Answers |-> g[a]]
    BY <2>1
  <2>4. c.on \subseteq Answers
    BY DEF CallSound
  <2> QED
    BY <1>4, <2>2, <2>3, <2>4
<1> QED
  BY <1>3, <1>4

\* The commit of a review.
LEMMA CommitStep ==
    ASSUME GradingInv, NEW p \in Processes, Commit(p)
    PROVE  GradingInv'
<1>1. PICK c \in call[p] : \E g \in NewGrades(c) :
          /\ grade' = GradesAfter(c.grade, g)
          /\ sub' = SubAfter(c.sub, Refreshed(c, g))
          /\ call' = [call EXCEPT ![p] = {}]
          /\ mixed' = IF g = c.grade /\ Refreshed(c, g) = c.sub THEN mixed ELSE Overtaken(c)
          /\ attempts' = attempts /\ import' = import
  BY DEF Commit
<1>2. PICK g \in NewGrades(c) :
          /\ grade' = GradesAfter(c.grade, g)
          /\ sub' = SubAfter(c.sub, Refreshed(c, g))
          /\ call' = [call EXCEPT ![p] = {}]
          /\ mixed' = IF g = c.grade /\ Refreshed(c, g) = c.sub THEN mixed ELSE Overtaken(c)
          /\ attempts' = attempts /\ import' = import
  BY <1>1
<1>3. CallSound(c)
  BY DEF GradingInv
<1>4. /\ g \in [Answers -> Grades] /\ c.grade \in [Answers -> Grades]
      /\ \A a \in Answers : g[a] = NoGrade <=> c.grade[a] = NoGrade
      /\ \A a \in Answers : c.grade[a] # NoGrade => grade[a] # NoGrade
  BY <1>3, ReviewsGiveGrades DEF CallSound, Seen
<1>5. /\ grade' \in [Answers -> Grades]
      /\ \A a \in Answers : grade[a] # NoGrade => grade'[a] # NoGrade
      /\ \A a \in Answers : g[a] = c.grade[a] => grade'[a] = grade[a]
  BY <1>2, <1>4, GradesMerge
<1>6. \A a \in Answers : grade[a] = NoGrade <=> grade'[a] = NoGrade
  <2> TAKE a \in Answers
  <2>1. CASE grade[a] = NoGrade
    BY <1>4, <1>5, <2>1
  <2>2. CASE grade[a] # NoGrade
    BY <1>5, <2>2
  <2> QED
    BY <2>1, <2>2
<1>7. WholeOrNot'
  BY <1>6 DEF GradingInv, WholeOrNot, GradedWhole, Ungraded, Answers, NoGrade
<1>8. SubShape'
  BY <1>2, ColumnsWritten DEF SubShape
<1>0. DOMAIN call' = Processes /\ \A q \in Processes : \A d \in call'[q] : d \in call[q]
  BY <1>2 DEF GradingInv
<1>9. \A q \in Processes : \A d \in call'[q] : CallSound(d)'
  <2> TAKE q \in Processes
  <2> TAKE d \in call'[q]
  <2>2. CallSound(d)
    BY <1>0 DEF GradingInv
  <2>3. Seen(d)'
    BY <1>5, <2>2, StaysSeen DEF CallSound
  <2> QED
    BY <2>2, <2>3 DEF CallSound, Answers, NoGrade
<1>10. \A w \in Workers : \A i \in import'[w] : ImportSound(i)'
  <2> TAKE w \in Workers
  <2> TAKE i \in import'[w]
  <2>1. ImportSound(i)
    BY <1>2 DEF GradingInv
  <2>2. Seen(i)'
    BY <1>5, <2>1, StaysSeen DEF ImportSound
  <2> QED
    BY <1>2, <2>1, <2>2 DEF ImportSound
<1>11. ASSUME ~mixed' PROVE Columns'
  <2>1. CASE g = c.grade /\ Refreshed(c, g) = c.sub
    <3>1. sub' = sub /\ ~mixed
      BY <1>2, <1>11, <2>1, ColumnsWritten DEF GradingInv
    <3>2. \A a \in Answers : grade'[a] = grade[a]
      BY <1>5, <2>1
    <3>3. grade \in [Answers -> Grades]
      BY DEF GradingInv
    <3>4. grade' = grade
      BY <1>5, <3>2, <3>3
    <3> QED
      BY <1>2, <3>1, <3>4 DEF GradingInv, Columns
  <2>2. CASE ~(g = c.grade /\ Refreshed(c, g) = c.sub)
    <3>1. c.attempts = attempts /\ c.grade = grade /\ c.sub = sub
      BY <1>2, <1>11, <2>2 DEF Overtaken
    <3>2. Refreshed(c, g) = Aggregate(g, attempts)
      BY <2>2, <3>1 DEF Refreshed
    <3>3. grade' = g
      BY <1>2, <1>4, <3>1, NothingBetween
    <3>4. sub' = Aggregate(g, attempts)
      BY <1>2, <3>1, <3>2, ColumnsWritten
    <3>5. attempts # {}
      BY <1>3, <1>4 DEF CallSound, GradingInv
    <3> QED
      BY <1>2, <3>3, <3>4, <3>5 DEF Columns
  <2> QED
    BY <2>1, <2>2
<1>12. mixed' \in BOOLEAN
  BY <1>2 DEF GradingInv, Overtaken
<1>13. \A a \in Answers : grade'[a] # NoGrade => a[1] \in attempts'
  BY <1>2, <1>6 DEF GradingInv
<1> QED
  BY <1>0, <1>2, <1>5, <1>7, <1>8, <1>9, <1>10, <1>11, <1>12, <1>13
     DEF GradingInv, Answers, Grades, NoGrade, Reviewed

-----------------------------------------------------------------------------
\* Steps of an import before it writes: what it has read.
LEMMA ImportWorks ==
    ASSUME GradingInv, NEW w \in Workers, DOMAIN import' = Workers,
           \A v \in Workers \ {w} : import'[v] = import[v],
           \A i \in import'[w] : ImportSound(i),
           attempts' = attempts, grade' = grade, sub' = sub, call' = call, mixed' = mixed
    PROVE  GradingInv'
<1>1. \A v \in Workers : \A i \in import'[v] : ImportSound(i)'
  <2> TAKE v \in Workers
  <2> TAKE i \in import'[v]
  <2>1. ImportSound(i)
    BY DEF GradingInv
  <2> QED
    BY <2>1 DEF ImportSound, Seen
<1>2. (WholeOrNot /\ SubShape)' /\ (Columns => Columns')
  BY DEF GradingInv, WholeOrNot, GradedWhole, Ungraded, SubShape, Columns
<1>3. \A p \in Processes : \A c \in call'[p] : CallSound(c)'
  BY DEF GradingInv, CallSound, Seen
<1> QED
  BY <1>1, <1>2, <1>3 DEF GradingInv

LEMMA ImportReadsStep ==
    ASSUME GradingInv, NEW w \in Workers, NEW new \in SUBSET (AllAttempts \ attempts),
           ImportReads(w, new)
    PROVE  GradingInv'
<1> DEFINE i == [new |-> new, attempts |-> attempts, grade |-> grade, sub |-> sub, graded |-> FALSE]
<1>1. /\ import' = [import EXCEPT ![w] = {i}] /\ new # {}
      /\ attempts' = attempts /\ grade' = grade /\ sub' = sub /\ call' = call /\ mixed' = mixed
  BY DEF ImportReads
<1>2. ImportSound(i)
  BY <1>1 DEF ImportSound, Seen, GradingInv
<1> HIDE DEF i
<1>3. /\ DOMAIN import' = Workers /\ import'[w] = {i}
      /\ \A v \in Workers \ {w} : import'[v] = import[v]
  BY <1>1 DEF GradingInv
<1> QED
  BY <1>1, <1>2, <1>3, ImportWorks

LEMMA ImportGradesStep ==
    ASSUME GradingInv, NEW w \in Workers, ImportGrades(w)
    PROVE  GradingInv'
<1>1. PICK i \in import[w] :
        /\ import' = [import EXCEPT ![w] =
              {[new |-> i.new, attempts |-> attempts,
                grade |-> [a \in Answers |-> IF a[1] \in i.attempts THEN i.grade[a] ELSE grade[a]],
                sub |-> i.sub, graded |-> TRUE]}]
        /\ attempts' = attempts /\ grade' = grade /\ sub' = sub /\ call' = call /\ mixed' = mixed
  BY DEF ImportGrades
<1> DEFINE read == [a \in Answers |-> IF a[1] \in i.attempts THEN i.grade[a] ELSE grade[a]]
           j == [new |-> i.new, attempts |-> attempts, grade |-> read, sub |-> i.sub, graded |-> TRUE]
<1>2. ImportSound(i) /\ grade \in [Answers -> Grades]
  BY DEF GradingInv
<1>3. /\ read \in [Answers -> Grades]
      /\ \A a \in Answers : read[a] # NoGrade => grade[a] # NoGrade
  BY <1>2 DEF ImportSound, Seen
<1> HIDE DEF read
<1>4. ImportSound(j)
  BY <1>2, <1>3 DEF ImportSound, Seen
<1>5. import' = [import EXCEPT ![w] = {j}]
  BY <1>1 DEF read
<1> HIDE DEF j
<1>6. /\ DOMAIN import' = Workers /\ import'[w] = {j}
      /\ \A v \in Workers \ {w} : import'[v] = import[v]
  BY <1>5 DEF GradingInv
<1> QED
  BY <1>1, <1>4, <1>6, ImportWorks

\* What an import computes from what it read: overrides stay, the other answers
\* of the attempts it knows are graded.
Proposal(i, g) ==
    /\ g \in [Answers -> Grades]
    /\ \A a \in Answers : ~RegradesAnswer(i, a) => g[a] = i.grade[a]
    /\ \A a \in Answers : a[1] \in i.attempts \cup i.new => g[a] # NoGrade

LEMMA ImportProposes ==
    ASSUME GradingInv, NEW w \in Workers, ImportCommits(w)
    PROVE  \E i \in import[w] : \E g :
             /\ Proposal(i, g)
             /\ grade' = GradesAfter(i.grade, g)
             /\ sub' = SubAfter(i.sub, Aggregate(g, i.attempts \cup i.new))
             /\ attempts' = attempts \cup i.new
             /\ import' = [import EXCEPT ![w] = {}]
             /\ mixed' = Overtaken(i) /\ call' = call
<1>1. PICK i \in import[w] :
        \E n \in [{a \in Answers : RegradesAnswer(i, a)} -> 0..MaxPoints] :
          LET new == [a \in Answers |->
                         IF a \in {x \in Answers : RegradesAnswer(i, x)}
                         THEN [status |-> "proposed", points |-> n[a]] ELSE i.grade[a]]
          IN  /\ grade' = GradesAfter(i.grade, new)
              /\ sub' = SubAfter(i.sub, Aggregate(new, i.attempts \cup i.new))
              /\ attempts' = attempts \cup i.new
              /\ import' = [import EXCEPT ![w] = {}]
              /\ mixed' = Overtaken(i)
              /\ UNCHANGED <<call, imports>>
  BY DEF ImportCommits
<1> DEFINE Again == {a \in Answers : RegradesAnswer(i, a)}
<1>2. PICK n \in [Again -> 0..MaxPoints] : \E g :
          /\ g = [a \in Answers |-> IF RegradesAnswer(i, a)
                                    THEN [status |-> "proposed", points |-> n[a]] ELSE i.grade[a]]
          /\ grade' = GradesAfter(i.grade, g)
          /\ sub' = SubAfter(i.sub, Aggregate(g, i.attempts \cup i.new))
          /\ attempts' = attempts \cup i.new
          /\ import' = [import EXCEPT ![w] = {}]
          /\ mixed' = Overtaken(i) /\ call' = call
  BY <1>1
<1>3. PICK g :
          /\ g = [a \in Answers |-> IF RegradesAnswer(i, a)
                                    THEN [status |-> "proposed", points |-> n[a]] ELSE i.grade[a]]
          /\ grade' = GradesAfter(i.grade, g)
          /\ sub' = SubAfter(i.sub, Aggregate(g, i.attempts \cup i.new))
          /\ attempts' = attempts \cup i.new
          /\ import' = [import EXCEPT ![w] = {}]
          /\ mixed' = Overtaken(i) /\ call' = call
  BY <1>2
<1>4. i.grade \in [Answers -> Grades]
  BY DEF GradingInv, ImportSound, Seen
<1>5. ASSUME NEW a \in Answers
      PROVE  /\ g[a] \in Grades
             /\ ~RegradesAnswer(i, a) => g[a] = i.grade[a]
             /\ a[1] \in i.attempts \cup i.new => g[a] # NoGrade
  <2>1. CASE RegradesAnswer(i, a)
    <3>1. g[a] = [status |-> "proposed", points |-> n[a]] /\ n[a] \in 0..MaxPoints
      BY <1>3, <2>1
    <3>2. g[a].status = "proposed"
      BY <3>1
    <3> QED
      BY <2>1, <3>1, <3>2 DEF Grades, NoGrade
  <2>2. CASE ~RegradesAnswer(i, a)
    <3>1. g[a] = i.grade[a]
      BY <1>3, <2>2
    <3> QED
      BY <1>4, <2>2, <3>1 DEF RegradesAnswer, NoGrade
  <2> QED
    BY <2>1, <2>2
<1>6. g = [a \in Answers |-> g[a]]
  BY <1>3
<1>7. g \in [Answers -> Grades]
  BY <1>5, <1>6
<1>8. Proposal(i, g)
  BY <1>5, <1>7 DEF Proposal
<1> QED
  BY <1>3, <1>8

LEMMA ImportCommitsStep ==
    ASSUME GradingInv, NEW w \in Workers, ImportCommits(w)
    PROVE  GradingInv'
<1>1. PICK i \in import[w] : \E g :
             /\ Proposal(i, g)
             /\ grade' = GradesAfter(i.grade, g)
             /\ sub' = SubAfter(i.sub, Aggregate(g, i.attempts \cup i.new))
             /\ attempts' = attempts \cup i.new
             /\ import' = [import EXCEPT ![w] = {}]
             /\ mixed' = Overtaken(i) /\ call' = call
  BY ImportProposes
<1>2. PICK g :
             /\ Proposal(i, g)
             /\ grade' = GradesAfter(i.grade, g)
             /\ sub' = SubAfter(i.sub, Aggregate(g, i.attempts \cup i.new))
             /\ attempts' = attempts \cup i.new
             /\ import' = [import EXCEPT ![w] = {}]
             /\ mixed' = Overtaken(i) /\ call' = call
  BY <1>1
<1>3. /\ ImportSound(i) /\ i.grade \in [Answers -> Grades] /\ g \in [Answers -> Grades]
      /\ \A a \in Answers : i.grade[a] # NoGrade => grade[a] # NoGrade
  BY <1>2 DEF GradingInv, ImportSound, Seen, Proposal
<1>4. ASSUME NEW a \in Answers
      PROVE  /\ g[a] = NoGrade => i.grade[a] = NoGrade
             /\ a[1] \in i.attempts \cup i.new => g[a] # NoGrade
             /\ a[1] \notin i.attempts \cup i.new => g[a] = i.grade[a]
  BY <1>2 DEF Proposal, RegradesAnswer
<1>5. /\ grade' \in [Answers -> Grades]
      /\ \A a \in Answers : grade[a] # NoGrade => grade'[a] # NoGrade
      /\ \A a \in Answers : g[a] # NoGrade => grade'[a] # NoGrade
      /\ \A a \in Answers : g[a] = i.grade[a] => grade'[a] = grade[a]
  BY <1>2, <1>3, <1>4, GradesMerge
<1>6. WholeOrNot'
  <2> SUFFICES ASSUME NEW at \in AllAttempts PROVE (GradedWhole(at) \/ Ungraded(at))'
    BY DEF WholeOrNot
  <2>1. \A q \in Questions : <<at, q>> \in Answers /\ <<at, q>>[1] = at
    BY DEF Answers
  <2>2. CASE at \in i.attempts \cup i.new
    <3>1. \A q \in Questions : grade'[<<at, q>>] # NoGrade
      BY <1>4, <1>5, <2>1, <2>2
    <3> QED
      BY <3>1 DEF GradedWhole, NoGrade
  <2>3. CASE at \notin i.attempts \cup i.new
    <3>1. \A q \in Questions : grade'[<<at, q>>] = grade[<<at, q>>]
      BY <1>4, <1>5, <2>1, <2>3
    <3>2. GradedWhole(at) \/ Ungraded(at)
      BY DEF GradingInv, WholeOrNot
    <3> QED
      BY <3>1, <3>2 DEF GradedWhole, Ungraded, NoGrade
  <2> QED
    BY <2>2, <2>3
<1>7. \A a \in Answers : grade'[a] # NoGrade => a[1] \in attempts'
  <2> TAKE a \in Answers
  <2>1. CASE a[1] \in i.attempts \cup i.new
    BY <1>2, <1>3, <2>1 DEF ImportSound
  <2>2. CASE a[1] \notin i.attempts \cup i.new
    <3>1. grade'[a] = grade[a]
      BY <1>4, <1>5, <2>2
    <3> QED
      BY <1>2, <3>1 DEF GradingInv
  <2> QED
    BY <2>1, <2>2
<1>8. attempts' \in SUBSET AllAttempts /\ attempts \subseteq attempts'
  BY <1>2, <1>3 DEF GradingInv, ImportSound
<1>9. SubShape'
  BY <1>2, ColumnsWritten DEF SubShape
<1>10. ASSUME ~mixed' PROVE Columns'
  <2>1. i.attempts = attempts /\ i.grade = grade /\ i.sub = sub
    BY <1>2, <1>10 DEF Overtaken
  <2>2. grade' = g
    BY <1>2, <1>3, <1>4, <2>1, NothingBetween
  <2>3. sub' = Aggregate(g, attempts')
    BY <1>2, <2>1, ColumnsWritten
  <2>4. attempts' # {}
    BY <1>2, <1>3 DEF ImportSound
  <2> QED
    BY <2>2, <2>3, <2>4 DEF Columns
<1>11. \A p \in Processes : \A c \in call'[p] : CallSound(c)'
  <2> TAKE p \in Processes
  <2> TAKE c \in call'[p]
  <2>1. CallSound(c)
    BY <1>2 DEF GradingInv
  <2>2. Seen(c)'
    BY <1>5, <2>1, StaysSeen DEF CallSound
  <2> QED
    BY <2>1, <2>2 DEF CallSound, Answers, NoGrade
<1>0. DOMAIN import' = Workers /\ \A v \in Workers : \A j \in import'[v] : j \in import[v]
  BY <1>2 DEF GradingInv
<1>12. \A v \in Workers : \A j \in import'[v] : ImportSound(j)'
  <2> TAKE v \in Workers
  <2> TAKE j \in import'[v]
  <2>2. ImportSound(j)
    BY <1>0 DEF GradingInv
  <2>3. Seen(j)'
    BY <1>5, <2>2, StaysSeen DEF ImportSound
  <2> QED
    BY <1>8, <2>2, <2>3 DEF ImportSound
<1>13. mixed' \in BOOLEAN /\ DOMAIN call' = Processes
  BY <1>2 DEF GradingInv, Overtaken
<1> QED
  BY <1>0, <1>5, <1>6, <1>7, <1>8, <1>9, <1>10, <1>11, <1>12, <1>13
     DEF GradingInv, Answers, Grades, NoGrade, Reviewed

\* The flag of a failure stays until the columns are computed again.
LEMMA ImportFailsStep ==
    ASSUME GradingInv, NEW w \in Workers, ImportGradingFails(w)
    PROVE  GradingInv'
<1>1. PICK i \in import[w] :
        /\ attempts' = attempts \cup i.new
        /\ sub' = SubAfter(i.sub, [i.sub EXCEPT !.status = "import_grading_failed"])
        /\ import' = [import EXCEPT ![w] = {}]
        /\ mixed' = (mixed \/ i.sub # sub)
        /\ grade' = grade /\ call' = call
  BY DEF ImportGradingFails
<1>2. ImportSound(i) /\ SubShape
  BY DEF GradingInv
<1>3. attempts' \in SUBSET AllAttempts /\ attempts \subseteq attempts'
  BY <1>1, <1>2 DEF GradingInv, ImportSound
<1>4. SubShape'
  BY <1>1, ColumnsWritten DEF SubShape
<1>5. ASSUME ~mixed' PROVE Columns'
  <2>1. i.sub = sub
    BY <1>1, <1>5
  <2>2. [sub EXCEPT !.status = "import_grading_failed"].status = "import_grading_failed"
    BY <1>2 DEF SubShape
  <2>3. sub'.status = "import_grading_failed"
    BY <1>1, <2>1, <2>2 DEF SubAfter, Changed
  <2> QED
    BY <2>3 DEF Columns
<1>6. \A p \in Processes : \A c \in call'[p] : CallSound(c)'
  BY <1>1 DEF GradingInv, CallSound, Seen
<1>0. DOMAIN import' = Workers /\ \A v \in Workers : \A j \in import'[v] : j \in import[v]
  BY <1>1 DEF GradingInv
<1>7. \A v \in Workers : \A j \in import'[v] : ImportSound(j)'
  <2> TAKE v \in Workers
  <2> TAKE j \in import'[v]
  <2>2. ImportSound(j)
    BY <1>0 DEF GradingInv
  <2> QED
    BY <1>1, <1>3, <2>2 DEF ImportSound, Seen
<1>8. WholeOrNot' /\ \A a \in Answers : grade'[a] # NoGrade => a[1] \in attempts'
  BY <1>1, <1>3 DEF GradingInv, WholeOrNot, GradedWhole, Ungraded
<1>9. mixed' \in BOOLEAN /\ DOMAIN call' = Processes /\ grade' \in [Answers -> Grades]
  BY <1>1 DEF GradingInv
<1> QED
  BY <1>0, <1>3, <1>4, <1>5, <1>6, <1>7, <1>8, <1>9 DEF GradingInv

\* Every step keeps the invariant.
LEMMA GradingStep ==
    ASSUME GradingInv, [GradingNext]_gradingVars
    PROVE  GradingInv'
<1>1. CASE \E p \in Processes : \/ \E a \in Answers : ReviewOne(p, a)
                                \/ BulkApprove(p)
                                \/ \E q \in Questions : Regrade(p, q)
  BY <1>1, AskedStep
<1>2. CASE \E p \in Processes : Commit(p)
  BY <1>2, CommitStep
<1>3. CASE \E w \in Workers, new \in SUBSET (AllAttempts \ attempts) : ImportReads(w, new)
  BY <1>3, ImportReadsStep
<1>4. CASE \E w \in Workers : ImportGrades(w)
  BY <1>4, ImportGradesStep
<1>5. CASE \E w \in Workers : ImportCommits(w)
  BY <1>5, ImportCommitsStep
<1>6. CASE \E w \in Workers : ImportGradingFails(w)
  BY <1>6, ImportFailsStep
<1>7. CASE \E w \in Workers : ImportLost(w)
  <2>1. PICK w \in Workers : ImportLost(w)
    BY <1>7
  <2>2. /\ import' = [import EXCEPT ![w] = {}] /\ attempts' = attempts /\ grade' = grade
        /\ sub' = sub /\ call' = call /\ mixed' = mixed
    BY <2>1 DEF ImportLost
  <2>3. /\ DOMAIN import' = Workers /\ import'[w] = {}
        /\ \A v \in Workers \ {w} : import'[v] = import[v]
    BY <2>2 DEF GradingInv
  <2> QED
    BY <2>2, <2>3, ImportWorks
<1>8. CASE UNCHANGED gradingVars
  <2>1. /\ attempts' = attempts /\ grade' = grade /\ sub' = sub /\ call' = call
        /\ import' = import /\ mixed' = mixed
    BY <1>8 DEF gradingVars
  <2>2. (WholeOrNot /\ SubShape)' /\ (Columns => Columns')
    BY <2>1 DEF GradingInv, WholeOrNot, GradedWhole, Ungraded, SubShape, Columns
  <2> QED
    BY <2>1, <2>2 DEF GradingInv, CallSound, ImportSound, Seen
<1> QED
  BY <1>1, <1>2, <1>3, <1>4, <1>5, <1>6, <1>7, <1>8 DEF GradingNext

-----------------------------------------------------------------------------
\* A submission whose open-ended grades are not proposals was reviewed, or its
\* attempt is not graded at all.
LEMMA ColumnsFollow ==
    GradingInv => SubmissionFollowsGrades
<1> SUFFICES ASSUME GradingInv PROVE AggregateExact /\ FullyReviewedIsReviewed
  BY DEF SubmissionFollowsGrades
<1>1. AggregateExact
  BY DEF GradingInv, Columns, AggregateExact
<1>2. ASSUME ~mixed, sub.status = "fully_reviewed"
      PROVE  \/ Ungraded(sub.graded)
             \/ /\ GradedWhole(sub.graded)
                /\ \A q \in OpenEnded : grade[<<sub.graded, q>>].status \in Reviewed
  <2>1. attempts # {} /\ sub = Aggregate(grade, attempts)
    BY <1>2 DEF GradingInv, Columns, NewSubmission
  <2>2. PICK at : at = PickAttempt(grade, attempts)
    OBVIOUS
  <2>3. at \in AllAttempts
    BY <2>1, <2>2, PickedIsThere DEF GradingInv
  <2>4. sub.graded = at /\ GradeStatus(grade, at) = "fully_reviewed"
    BY <1>2, <2>1, <2>2 DEF Aggregate
  <2>5. GradedWhole(at) \/ Ungraded(at)
    BY <2>3 DEF GradingInv, WholeOrNot
  <2>6. "proposed" \notin {grade[<<at, q>>].status : q \in OpenEnded} \ {"none"}
    BY <2>4 DEF GradeStatus
  <2>7. ASSUME GradedWhole(at), NEW q \in OpenEnded
        PROVE  grade[<<at, q>>].status \in Reviewed
    <3>1. q \in Questions
      BY GradingAssumption
    <3>2. grade[<<at, q>>] \in Grades /\ grade[<<at, q>>] # NoGrade
      BY <2>3, <2>7, <3>1 DEF GradingInv, Answers, GradedWhole
    <3>3. grade[<<at, q>>].status # "proposed"
      BY <2>6
    <3> QED
      BY <3>2, <3>3 DEF Grades
  <2> QED
    BY <2>4, <2>5, <2>7
<1> QED
  BY <1>1, <1>2 DEF FullyReviewedIsReviewed

\* Whatever requests and imports crossed before, the columns a submission carries
\* are those its grades give once one of them has computed the columns without
\* being overtaken, and fully_reviewed then means reviewed, or not graded at all
\* (_refresh_submission_aggregate, grade_export.py).
THEOREM ColumnsFollowGrades == GradingSpec => []SubmissionFollowsGrades
<1>1. GradingInv /\ [GradingNext]_gradingVars => GradingInv'
  BY GradingStep
<1> QED
  BY <1>1, GradingStarts, ColumnsFollow, PTL DEF GradingSpec

\* A step changes an override only as the teacher asked, or for a transaction that
\* had read the grade before.
Kept ==
    \A a \in Answers : grade[a].status = "manual_override" /\ grade'[a] # grade[a] =>
          \/ \E p \in Processes : \E c \in call[p] :
                /\ call'[p] = {}
                /\ \/ c.grade[a].status # "manual_override"
                   \/ /\ c.on = {a}
                      /\ \/ c.op = "override"
                         \/ c.op = "approve" /\ grade'[a].points = grade[a].points
          \/ \E w \in Workers : \E i \in import[w] :
                import'[w] = {} /\ i.grade[a].status # "manual_override"

LEMMA OverridesStay ==
    ASSUME GradingInv, [GradingNext]_gradingVars
    PROVE  Kept
<1>1. CASE grade' = grade
  BY <1>1 DEF Kept
<1>2. CASE \E p \in Processes : Commit(p)
  <2>1. PICK p \in Processes : Commit(p)
    BY <1>2
  <2>2. PICK c \in call[p] : \E g \in NewGrades(c) :
            grade' = GradesAfter(c.grade, g) /\ call' = [call EXCEPT ![p] = {}]
    BY <2>1 DEF Commit
  <2>3. PICK g \in NewGrades(c) :
            grade' = GradesAfter(c.grade, g) /\ call' = [call EXCEPT ![p] = {}]
    BY <2>2
  <2>4. CallSound(c) /\ call'[p] = {}
    BY <2>3 DEF GradingInv
  <2>5. /\ g \in [Answers -> Grades] /\ c.grade \in [Answers -> Grades]
        /\ \A a \in Answers : g[a] = NoGrade <=> c.grade[a] = NoGrade
        /\ \A a \in Answers \ c.on : g[a] = c.grade[a]
        /\ c.op = "approve" => \A a \in c.on : g[a].points = c.grade[a].points
        /\ \A a \in Answers : c.grade[a] # NoGrade => grade[a] # NoGrade
    BY <2>4, ReviewsGiveGrades DEF CallSound, Seen
  <2>6. /\ \A a \in Answers : g[a] = c.grade[a] => grade'[a] = grade[a]
        /\ \A a \in Answers : g[a] # NoGrade /\ g[a].points = c.grade[a].points
               /\ c.grade[a] # NoGrade => grade'[a].points = grade[a].points
    BY <2>3, <2>5, GradesMerge
  <2>7. ASSUME NEW a \in Answers, grade'[a] # grade[a], c.grade[a].status = "manual_override"
        PROVE  /\ c.on = {a}
               /\ \/ c.op = "override"
                  \/ c.op = "approve" /\ grade'[a].points = grade[a].points
    <3>1. a \in c.on
      BY <2>5, <2>6, <2>7
    <3>2. c.op # "bulk" /\ c.op # "regrade"
      BY <2>4, <2>7, <3>1 DEF CallSound
    <3>3. c.on = {a} /\ c.op \in {"approve", "override"}
      BY <2>4, <3>1, <3>2 DEF CallSound
    <3>4. c.grade[a] # NoGrade /\ g[a] # NoGrade
      BY <2>4, <2>5, <3>1 DEF CallSound
    <3> QED
      BY <2>5, <2>6, <3>1, <3>3, <3>4
  <2> QED
    BY <2>4, <2>7 DEF Kept
<1>3. CASE \E w \in Workers : ImportCommits(w)
  <2>1. PICK w \in Workers : ImportCommits(w)
    BY <1>3
  <2>2. PICK i \in import[w] : \E g :
             /\ Proposal(i, g)
             /\ grade' = GradesAfter(i.grade, g)
             /\ import' = [import EXCEPT ![w] = {}]
    BY <2>1, ImportProposes
  <2>3. PICK g : /\ Proposal(i, g)
                 /\ grade' = GradesAfter(i.grade, g)
                 /\ import' = [import EXCEPT ![w] = {}]
    BY <2>2
  <2>4. /\ i.grade \in [Answers -> Grades] /\ g \in [Answers -> Grades]
        /\ \A a \in Answers : i.grade[a] # NoGrade => grade[a] # NoGrade
        /\ import'[w] = {}
    BY <2>3 DEF GradingInv, ImportSound, Seen, Proposal
  <2>5. \A a \in Answers : /\ g[a] = NoGrade => i.grade[a] = NoGrade
                           /\ i.grade[a].status = "manual_override" => g[a] = i.grade[a]
    BY <2>3 DEF Proposal, RegradesAnswer
  <2>6. \A a \in Answers : g[a] = i.grade[a] => grade'[a] = grade[a]
    BY <2>3, <2>4, <2>5, GradesMerge
  <2> QED
    BY <2>4, <2>5, <2>6 DEF Kept
<1>4. CASE \E w \in Workers : \/ ImportGradingFails(w) \/ ImportGrades(w) \/ ImportLost(w)
                              \/ \E new \in SUBSET (AllAttempts \ attempts) : ImportReads(w, new)
  BY <1>1, <1>4 DEF ImportGradingFails, ImportGrades, ImportLost, ImportReads
<1>6. CASE \E p \in Processes : \/ \E a \in Answers : ReviewOne(p, a)
                                \/ BulkApprove(p)
                                \/ \E q \in Questions : Regrade(p, q)
  BY <1>1, <1>6 DEF ReviewOne, BulkApprove, Regrade, Read
<1>7. CASE UNCHANGED gradingVars
  BY <1>1, <1>7 DEF gradingVars
<1> QED
  BY <1>2, <1>3, <1>4, <1>6, <1>7 DEF GradingNext

\* However many API processes review and imports grade at the same time, a grade
\* the teacher set is lost only to one of them that had read it before it was set;
\* otherwise it keeps its points until another override of it, and its status
\* until another review of it.
THEOREM OverridesAreKept == GradingSpec => OverrideKept
<1>1. GradingInv /\ [GradingNext]_gradingVars => GradingInv'
  BY GradingStep
<1>2. GradingInv /\ [GradingNext]_gradingVars => Kept
  BY OverridesStay
<1>3. OverrideKept <=> [][Kept]_gradingVars
  BY PTL DEF OverrideKept, Kept
<1> QED
  BY <1>1, <1>2, <1>3, GradingStarts, PTL DEF GradingSpec

-----------------------------------------------------------------------------
(***************************************************************************)
(* Grading schemes, statistics and the grade export                        *)
(***************************************************************************)
ReportTypes ==
    /\ gradingScheme = [g \in SchemeRows |-> gradingScheme[g]]
    /\ \A g \in SchemeRows : Exists(g) => gradingScheme[g] \in SchemeRecords
    /\ schoolDefault \in [Schools -> SchemeRows \cup {NoScheme}]
    /\ paper = [x \in Papers |-> paper[x]]
    /\ \A x \in Sat : paper[x] \in PaperRecords
    /\ result = [x \in Papers |-> result[x]]
    /\ \A x \in Papers : IsFiniteSet(DOMAIN result[x]) /\ DOMAIN result[x] \subseteq Pupils
    /\ task = [w \in Requests |-> task[w]]

\* A scheme that is there, or was, and is not another institution's.
Held(g, c) == /\ g \in SchemeRows /\ gradingScheme[g] # NoScheme
              /\ Exists(g) => gradingScheme[g].owner \in {System, c}

\* What a request that was checked may still rely on when it commits.
Checked(t) ==
    /\ t.kind = "save" =>
          /\ t.school \in Schools /\ t.scale \in Scales /\ t.scheme \in SchemeRows
          /\ t.flag \in BOOLEAN \cup {NoScheme} /\ (t.new => t.flag # NoScheme)
          /\ ~t.new => /\ gradingScheme[t.scheme] # NoScheme
                       /\ Exists(t.scheme) => gradingScheme[t.scheme].owner = t.school
    /\ t.kind = "delete" => t.scheme \in SchemeRows
    /\ t.kind \in {"attach", "create", "default"} =>
          t.school \in Schools /\ (t.scheme = NoScheme \/ Held(t.scheme, t.school))
    /\ t.kind \in {"attach", "create"} => t.paper \in Papers
    /\ t.kind = "attach" => t.paper \in Sat

PaperSound(x) ==
    /\ ~Dangling(paper[x].scheme)
    /\ ~paper[x].moved /\ ~paper[x].lent => ~Foreign(paper[x].scheme, paper[x].school)
    /\ ~paper[x].moved => \A p \in DOMAIN result[x] : PupilSchool[p] = paper[x].school

DefaultSound(c) == ~Dangling(schoolDefault[c]) /\ ~Foreign(schoolDefault[c], c)

OneDefault ==
    \A g, h \in SchemeRows :
        /\ Exists(g) /\ gradingScheme[g].flagged
        /\ Exists(h) /\ gradingScheme[h].flagged
        /\ gradingScheme[g].owner = gradingScheme[h].owner /\ gradingScheme[g].owner # System
        => g = h

ReportInv ==
    /\ ReportTypes
    /\ \A x \in Sat : PaperSound(x)
    /\ \A x \in Papers \ Sat : DOMAIN result[x] = {}
    /\ \A c \in Schools : DefaultSound(c)
    /\ OneDefault
    /\ \A w \in Requests : task[w] # NoTask => Checked(task[w])

LEMMA CountsAdd ==
    ASSUME NEW S, IsFiniteSet(S), NEW A \in SUBSET S, NEW B \in SUBSET S, A \cap B = {}
    PROVE  Cardinality(A \cup B) = Cardinality(A) + Cardinality(B)
<1>1. IsFiniteSet(A) /\ IsFiniteSet(B)
  BY FS_Subset
<1>2. Cardinality(A) \in Nat /\ Cardinality(B) \in Nat
  BY <1>1, FS_CardinalityType
<1>3. Cardinality(A \cap B) = 0
  BY FS_EmptySet
<1>4. Cardinality(A \cup B) = Cardinality(A) + Cardinality(B) - Cardinality(A \cap B)
  BY <1>1, FS_Union
<1> QED
  BY <1>2, <1>3, <1>4

\* The class and the exam count the same pupils.
LEMMA CountsAgree ==
    ASSUME ReportInv, NEW x \in Sat, NEW c, c = paper[x].school,
           NEW rest, rest = DOMAIN result[x] \ ClassOf(c)
    PROVE  /\ Overview(x).passed = ClassAggregate(c, x).passed + PassCount(x, rest)
           /\ Overview(x).submissions = ClassAggregate(c, x).submissions + Cardinality(rest)
<1> DEFINE D == DOMAIN result[x]
           there == ClassOf(c) \cap D
           In(P) == {p \in P : Passes(result[x][p].percent, ScaleOf(x))}
<1>1. IsFiniteSet(D)
  BY DEF ReportInv, ReportTypes, Sat
<1>2. /\ Overview(x).passed = Cardinality(In(D)) /\ Overview(x).submissions = Cardinality(D)
      /\ PassCount(x, rest) = Cardinality(In(rest))
      /\ ClassAggregate(c, x).passed = Cardinality(In(there))
      /\ ClassAggregate(c, x).submissions = Cardinality(there)
  <2>1. In(D) = {p \in D \cap DOMAIN result[x] : Passes(result[x][p].percent, ScaleOf(x))}
    OBVIOUS
  <2>2. In(rest) = {p \in rest \cap DOMAIN result[x] :
                       Passes(result[x][p].percent, ScaleOf(x))}
    OBVIOUS
  <2>3. In(there) = {p \in there : ClassPasses(result[x][p].percent, ScaleOf(x))}
    BY DEF ClassPasses
  <2> QED
    BY <2>1, <2>2, <2>3 DEF Overview, PassCount, ClassAggregate
<1>3. /\ In(D) = In(there) \cup In(rest) /\ In(there) \cap In(rest) = {}
      /\ In(there) \subseteq D /\ In(rest) \subseteq D
      /\ D = there \cup rest /\ there \cap rest = {} /\ there \subseteq D /\ rest \subseteq D
  OBVIOUS
<1> DEFINE all == In(D)
           ours == In(there)
           others == In(rest)
<1> HIDE DEF all, ours, others, D, there, In
<1>4. Cardinality(all) = Cardinality(ours) + Cardinality(others)
  <2>1. /\ all = ours \cup others /\ ours \cap others = {}
        /\ ours \subseteq D /\ others \subseteq D
    BY <1>3 DEF all, ours, others
  <2> QED
    BY <1>1, <2>1, CountsAdd
<1>5. Cardinality(D) = Cardinality(there) + Cardinality(rest)
  BY <1>1, <1>3, CountsAdd
<1> QED
  BY <1>2, <1>4, <1>5 DEF all, ours, others

LEMMA ReportsFollow ==
    ASSUME ReportInv
    PROVE  ReportsSound
<1>1. ASSUME NEW c \in Schools
      PROVE  Cardinality(Flagged(c)) <= 1
  <2>1. \A g, h \in Flagged(c) : g = h
    BY ReportsAssumption DEF ReportInv, OneDefault, Flagged, OwnedBy
  <2>2. Cardinality(Flagged(c)) \in {0, 1}
    <3>1. CASE Flagged(c) = {}
      BY <3>1, FS_EmptySet
    <3>2. CASE Flagged(c) # {}
      <4>1. PICK g : Flagged(c) = {g}
        BY <2>1, <3>2
      <4> QED
        BY <4>1, FS_Singleton
    <3> QED
      BY <3>1, <3>2
  <2> QED
    BY <2>2
<1>2. \A c \in Schools : ~Dangling(schoolDefault[c]) /\ ~Foreign(schoolDefault[c], c)
  BY DEF ReportInv, DefaultSound
<1>3. ASSUME NEW x \in Sat
      PROVE  /\ ~Dangling(paper[x].scheme)
             /\ ~paper[x].moved =>
                  /\ ~paper[x].lent => ~Foreign(Resolved(x), paper[x].school)
                  /\ \A p \in DOMAIN result[x] : x \in History(p)
  <2>1. PaperSound(x) /\ paper[x].school \in Schools
    BY DEF ReportInv, ReportTypes, PaperRecords
  <2>2. ~paper[x].moved /\ ~paper[x].lent => ~Foreign(Resolved(x), paper[x].school)
    BY <1>2, <2>1 DEF PaperSound, Resolved
  <2> QED
    BY <2>1, <2>2 DEF PaperSound, History
<1> QED
  BY <1>1, <1>2, <1>3, CountsAgree DEF ReportsSound

\* A request that is accepted with what it has checked.
LEMMA AskStep ==
    ASSUME ReportInv, NEW w \in Requests, NEW t, Ask(w, t), Checked(t),
           UNCHANGED <<gradingScheme, schoolDefault, paper, result, members>>
    PROVE  ReportInv'
<1>1. /\ task' = [v \in Requests |-> task'[v]]
      /\ \A v \in Requests : task'[v] \in {task[v], t}
  BY DEF Ask, ReportInv, ReportTypes
<1>2. ReportTypes'
  BY <1>1 DEF ReportInv, ReportTypes, Exists, Sat
<1>3. \A s : Checked(s) => Checked(s)'
  BY DEF Checked, Held, Exists, Sat
<1>4. \A v \in Requests : task'[v] # NoTask => Checked(task'[v])
  BY <1>1 DEF ReportInv
<1>5. \A v \in Requests : (task[v] # NoTask => Checked(task[v]))'
  BY <1>3, <1>4
<1>6. OneDefault'
  BY DEF ReportInv, OneDefault, Exists
<1> QED
  BY <1>2, <1>5, <1>6 DEF ReportInv, PaperSound, DefaultSound, Dangling, Foreign, Exists, Sat

LEMMA BeginSaveStep ==
    ASSUME ReportInv, NEW w \in Requests, NEW c \in Schools, NEW g \in SchemeRows,
           BeginSave(w, c, g)
    PROVE  ReportInv'
<1>1. PICK scale \in Scales, flag \in BOOLEAN \cup {NoScheme} :
         Ask(w, [kind |-> "save", scheme |-> g, school |-> c, scale |-> scale,
                 flag |-> IF ~Exists(g) /\ flag = NoScheme THEN FALSE ELSE flag,
                 new |-> ~Exists(g), demoted |-> Flagged(c) \ {g}])
  BY DEF BeginSave
<1> DEFINE new == ~Exists(g)
           said == IF new /\ flag = NoScheme THEN FALSE ELSE flag
           t == [kind |-> "save", scheme |-> g, school |-> c, scale |-> scale,
                 flag |-> said, new |-> new, demoted |-> Flagged(c) \ {g}]
<1>2. Exists(g) => gradingScheme[g].owner = c /\ gradingScheme[g] # NoScheme
  BY ReportsAssumption DEF BeginSave, OwnedBy, Exists
<1>3. /\ said \in BOOLEAN \cup {NoScheme} /\ (new => said # NoScheme) /\ new \in BOOLEAN
      /\ ~new => Exists(g)
  BY ReportsAssumption
<1>4. Ask(w, t)
  BY <1>1
<1> HIDE DEF new, said
<1>5. /\ t.kind = "save" /\ t.school = c /\ t.scale = scale /\ t.scheme = g
      /\ t.flag = said /\ t.new = new
  OBVIOUS
<1> HIDE DEF t
<1>6. Checked(t)
  BY <1>2, <1>3, <1>5 DEF Checked
<1> QED
  BY <1>4, <1>6, AskStep DEF BeginSave

LEMMA BeginDeleteStep ==
    ASSUME ReportInv, NEW w \in Requests, NEW g \in SchemeRows, BeginDelete(w, g)
    PROVE  ReportInv'
<1> DEFINE t == [kind |-> "delete", scheme |-> g]
<1>1. Checked(t)
  BY DEF Checked
<1> QED
  BY <1>1, AskStep DEF BeginDelete

\* The schemes a request may name are those its institution may use.
LEMMA AttachableHeld ==
    ASSUME ReportInv, NEW c \in Schools, NEW g \in SchemeRows \cup {NoScheme},
           g # NoScheme => Attachable(g, c)
    PROVE  g = NoScheme \/ Held(g, c)
  BY DEF Attachable, Held, Exists

LEMMA DefaultHeld ==
    ASSUME ReportInv, NEW c \in Schools
    PROVE  schoolDefault[c] = NoScheme \/ Held(schoolDefault[c], c)
<1>1. DefaultSound(c) /\ schoolDefault[c] \in SchemeRows \cup {NoScheme}
  BY DEF ReportInv, ReportTypes
<1> QED
  BY <1>1 DEF DefaultSound, Dangling, Foreign, Held, Exists

LEMMA BeginUseStep ==
    ASSUME ReportInv, NEW w \in Requests, NEW c \in Schools,
           NEW g \in SchemeRows \cup {NoScheme},
           \/ BeginDefault(w, c, g)
           \/ \E x \in Papers : BeginAttach(w, x, g, c) \/ BeginCreate(w, x, g, c)
    PROVE  ReportInv'
<1>1. g = NoScheme \/ Held(g, c)
  BY AttachableHeld DEF BeginDefault, BeginAttach, BeginCreate
<1>2. CASE BeginDefault(w, c, g)
  <2> DEFINE t == [kind |-> "default", scheme |-> g, school |-> c]
  <2>1. Checked(t)
    BY <1>1 DEF Checked
  <2> QED
    BY <1>2, <2>1, AskStep DEF BeginDefault
<1>3. ASSUME NEW x \in Papers, BeginAttach(w, x, g, c)
      PROVE  ReportInv'
  <2> DEFINE t == [kind |-> "attach", paper |-> x, scheme |-> g, school |-> c]
  <2>1. Checked(t)
    BY <1>1, <1>3 DEF Checked, BeginAttach
  <2> QED
    BY <1>3, <2>1, AskStep DEF BeginAttach
<1>4. ASSUME NEW x \in Papers, BeginCreate(w, x, g, c)
      PROVE  ReportInv'
  <2> DEFINE named == IF g = NoScheme THEN schoolDefault[c] ELSE g
             t == [kind |-> "create", paper |-> x, school |-> c, scheme |-> named]
  <2>1. named = NoScheme \/ Held(named, c)
    BY <1>1, DefaultHeld
  <2>2. Ask(w, t) /\ UNCHANGED <<gradingScheme, schoolDefault, paper, result, members>>
    BY <1>4 DEF BeginCreate
  <2> HIDE DEF named
  <2>3. Checked(t)
    BY <2>1 DEF Checked
  <2> QED
    BY <2>2, <2>3, AskStep
<1> QED
  BY <1>2, <1>3, <1>4

\* A step that changes schemes: what was there keeps its owner or goes for good, and
\* what is in use stays.
LEMMA SchemeStep ==
    ASSUME ReportInv, UNCHANGED <<schoolDefault, paper, result, members>>,
           NEW w \in Requests, Answered(w),
           gradingScheme' = [g \in SchemeRows |-> gradingScheme'[g]],
           \A g \in SchemeRows : Exists(g)' => gradingScheme'[g] \in SchemeRecords,
           \A g \in SchemeRows : gradingScheme[g] # NoScheme =>
               /\ gradingScheme'[g] # NoScheme
               /\ Exists(g)' => Exists(g) /\ gradingScheme'[g].owner = gradingScheme[g].owner,
           \A g \in SchemeRows : Exists(g) /\ Used(g) => Exists(g)',
           OneDefault'
    PROVE  ReportInv'
<1>1. /\ task' = [v \in Requests |-> task'[v]]
      /\ \A v \in Requests : task'[v] \in {task[v], NoTask}
  BY DEF Answered, ReportInv, ReportTypes
<1>2. ReportTypes'
  BY <1>1 DEF ReportInv, ReportTypes, Sat
<1>3. \A g \in SchemeRows : \A c : Held(g, c) => Held(g, c)'
  BY DEF Held, Exists
<1>4. \A s : Checked(s) => Checked(s)'
  BY <1>3 DEF Checked, Held, Sat, Exists
<1>5. \A v \in Requests : (task[v] # NoTask => Checked(task[v]))'
  BY <1>1, <1>4 DEF ReportInv
<1>6. ASSUME NEW x \in Sat PROVE PaperSound(x)'
  <2>1. PaperSound(x) /\ paper[x].scheme \in SchemeRows \cup {NoScheme} /\ x \in Papers
    BY DEF ReportInv, ReportTypes, PaperRecords, Sat
  <2>2. Exists(paper[x].scheme) /\ paper[x].scheme # NoScheme => Used(paper[x].scheme)
    BY DEF Used
  <2> QED
    BY <2>1, <2>2, ReportsAssumption DEF PaperSound, Dangling, Foreign, Exists
<1>7. ASSUME NEW c \in Schools PROVE DefaultSound(c)'
  <2>1. DefaultSound(c) /\ schoolDefault[c] \in SchemeRows \cup {NoScheme}
    BY DEF ReportInv, ReportTypes
  <2>2. Exists(schoolDefault[c]) => Used(schoolDefault[c])
    BY DEF Used
  <2> QED
    BY <2>1, <2>2, ReportsAssumption DEF DefaultSound, Dangling, Foreign, Exists
<1> QED
  BY <1>2, <1>5, <1>6, <1>7 DEF ReportInv, Sat

\* Nothing happens but the answer.
LEMMA RefusedStep ==
    ASSUME ReportInv, NEW w \in Requests, Answered(w),
           UNCHANGED <<gradingScheme, schoolDefault, paper, result, members>>
    PROVE  ReportInv'
<1>1. /\ gradingScheme' = [g \in SchemeRows |-> gradingScheme'[g]]
      /\ \A g \in SchemeRows : Exists(g)' => gradingScheme'[g] \in SchemeRecords
      /\ OneDefault'
  BY DEF ReportInv, ReportTypes, Exists, OneDefault
<1> QED
  BY <1>1, SchemeStep DEF Exists

LEMMA CommitSaveStep ==
    ASSUME ReportInv, NEW w \in Requests, CommitSave(w)
    PROVE  ReportInv'
<1> DEFINE t == task[w]
           c == t.school
           k == t.scheme
<1>1. /\ t.kind = "save" /\ Checked(t) /\ Answered(w)
      /\ UNCHANGED <<schoolDefault, paper, result, members>>
  BY DEF CommitSave, Asked, ReportInv
<1>2. CASE SaveConflict(w)
  BY <1>1, <1>2, RefusedStep DEF CommitSave, Unless
<1>3. CASE ~SaveConflict(w)
  <2>1. /\ c \in Schools /\ t.scale \in Scales /\ k \in SchemeRows
        /\ t.flag \in BOOLEAN \cup {NoScheme} /\ (t.new => t.flag # NoScheme)
        /\ t.new => gradingScheme[k] = NoScheme
        /\ ~t.new => Exists(k) /\ gradingScheme[k].owner = c
        /\ t.flag = TRUE => t.demoted = Flagged(c) \ {k}
    BY <1>1, <1>3 DEF Checked, SaveConflict
  <2> DEFINE mark == IF t.flag = NoScheme THEN gradingScheme[k].flagged ELSE t.flag
             row == [owner |-> c, scale |-> t.scale, flagged |-> mark]
  <2>2. gradingScheme' = [g \in SchemeRows |->
             IF g = k THEN row
             ELSE IF t.flag = TRUE /\ g \in t.demoted
             THEN [gradingScheme[g] EXCEPT !.flagged = FALSE]
             ELSE gradingScheme[g]]
    BY <1>3 DEF CommitSave, Unless
  <2>3. mark \in BOOLEAN
    BY <2>1 DEF ReportInv, ReportTypes, SchemeRecords
  <2>4. t.flag = TRUE \/ ~mark \/ (Exists(k) /\ gradingScheme[k].owner = c
                                   /\ gradingScheme[k].flagged)
    BY <2>1
  <2> HIDE DEF mark
  <2>5. row \in SchemeRecords /\ row.owner = c /\ row.flagged = mark
    BY <2>1, <2>3 DEF SchemeRecords
  <2> HIDE DEF row
  <2>6. gradingScheme'[k] \in SchemeRecords /\ gradingScheme'[k] = row
    BY <2>1, <2>2, <2>5
  <2>7. ASSUME NEW g \in SchemeRows \ {k}, Exists(g), gradingScheme'[g] # gradingScheme[g]
        PROVE  /\ t.flag = TRUE /\ g \in Flagged(c)
               /\ gradingScheme'[g] \in SchemeRecords
               /\ gradingScheme'[g].owner = gradingScheme[g].owner
               /\ ~gradingScheme'[g].flagged
    <3>1. gradingScheme[g] \in SchemeRecords
      BY <2>7 DEF ReportInv, ReportTypes
    <3>2. /\ t.flag = TRUE /\ g \in Flagged(c)
          /\ gradingScheme'[g] = [gradingScheme[g] EXCEPT !.flagged = FALSE]
      BY <2>1, <2>2, <2>7
    <3> QED
      BY <3>1, <3>2 DEF SchemeRecords
  <2>8. ASSUME NEW g \in SchemeRows \ {k}, ~Exists(g)
        PROVE  gradingScheme'[g] = gradingScheme[g]
    BY <2>1, <2>2, <2>8 DEF Flagged, OwnedBy
  <2>9. \A g \in SchemeRows : Exists(g)' => gradingScheme'[g] \in SchemeRecords
    BY <2>6, <2>7, <2>8 DEF Exists, ReportInv, ReportTypes
  <2>10. \A g \in SchemeRows : gradingScheme[g] # NoScheme =>
            /\ gradingScheme'[g] # NoScheme
            /\ Exists(g)' => Exists(g) /\ gradingScheme'[g].owner = gradingScheme[g].owner
    BY <2>1, <2>5, <2>6, <2>7, <2>8, ReportsAssumption DEF Exists
  <2>11. \A g \in SchemeRows : Exists(g) => Exists(g)'
    BY <2>6, <2>7, <2>8, ReportsAssumption DEF Exists
  <2>12. ASSUME NEW g \in SchemeRows, NEW h \in SchemeRows,
                Exists(g)', gradingScheme'[g].flagged, Exists(h)', gradingScheme'[h].flagged,
                gradingScheme'[g].owner = gradingScheme'[h].owner,
                gradingScheme'[g].owner # System
         PROVE  g = h
    <3>1. \A x \in SchemeRows \ {k} : Exists(x)' /\ gradingScheme'[x].flagged =>
             /\ Exists(x) /\ gradingScheme'[x] = gradingScheme[x]
             /\ t.flag = TRUE => x \notin Flagged(c)
      BY <2>1, <2>2, <2>7, <2>8 DEF Exists
    <3>2. ASSUME NEW x \in SchemeRows \ {k}, Exists(x)', gradingScheme'[x].flagged,
                 gradingScheme'[k].flagged, gradingScheme'[k].owner = gradingScheme'[x].owner
          PROVE  FALSE
      <4>1. /\ Exists(x) /\ gradingScheme[x].flagged /\ gradingScheme[x].owner = c
            /\ mark
        BY <2>5, <2>6, <3>1, <3>2
      <4>2. x \in Flagged(c)
        BY <4>1 DEF Flagged, OwnedBy
      <4>3. Exists(k) /\ gradingScheme[k].owner = c /\ gradingScheme[k].flagged
        BY <2>4, <3>1, <3>2, <4>1, <4>2
      <4> QED
        BY <2>1, <4>1, <4>3, ReportsAssumption DEF ReportInv, OneDefault
    <3>3. CASE g # k /\ h # k
      BY <2>12, <3>1, <3>3 DEF ReportInv, OneDefault
    <3> QED
      BY <2>12, <3>2, <3>3
  <2>13. OneDefault'
    BY <2>12 DEF OneDefault
  <2>14. gradingScheme' = [g \in SchemeRows |-> gradingScheme'[g]]
    BY <2>2
  <2> QED
    BY <1>1, <2>9, <2>10, <2>11, <2>13, <2>14, SchemeStep
<1> QED
  BY <1>2, <1>3

LEMMA CommitDeleteStep ==
    ASSUME ReportInv, NEW w \in Requests, CommitDelete(w)
    PROVE  ReportInv'
<1>1. PICK k \in SchemeRows : k = task[w].scheme
  BY DEF CommitDelete, Asked, ReportInv, Checked
<1>2. Answered(w) /\ UNCHANGED <<schoolDefault, paper, result, members>>
  BY DEF CommitDelete
<1>3. CASE Used(k)
  BY <1>1, <1>2, <1>3, RefusedStep DEF CommitDelete, Unless
<1>4. CASE ~Used(k)
  <2>1. gradingScheme' = [gradingScheme EXCEPT ![k] = Deleted]
    BY <1>1, <1>4 DEF CommitDelete, Unless
  <2>2. /\ gradingScheme' = [g \in SchemeRows |-> gradingScheme'[g]]
        /\ gradingScheme'[k] = Deleted
        /\ \A g \in SchemeRows \ {k} : gradingScheme'[g] = gradingScheme[g]
    BY <1>1, <2>1 DEF ReportInv, ReportTypes
  <2>3. ~Exists(k)' /\ \A g \in SchemeRows \ {k} : Exists(g)' <=> Exists(g)
    BY <2>2 DEF Exists
  <2>4. OneDefault'
    BY <2>2, <2>3 DEF OneDefault, ReportInv
  <2>5. \A g \in SchemeRows : Exists(g)' => gradingScheme'[g] \in SchemeRecords
    BY <2>2, <2>3 DEF ReportInv, ReportTypes
  <2> QED
    BY <1>2, <1>4, <2>2, <2>3, <2>4, <2>5, ReportsAssumption, SchemeStep
<1> QED
  BY <1>3, <1>4

LEMMA CommitDefaultStep ==
    ASSUME ReportInv, NEW w \in Requests, CommitDefault(w)
    PROVE  ReportInv'
<1> DEFINE t == task[w]
           c == t.school
           k == t.scheme
<1>1. /\ c \in Schools /\ (k = NoScheme \/ Held(k, c)) /\ Answered(w)
      /\ UNCHANGED <<gradingScheme, paper, result, members>>
  BY DEF CommitDefault, Asked, ReportInv, Checked
<1>2. CASE Dangling(k)
  BY <1>1, <1>2, RefusedStep DEF CommitDefault, Unless
<1>3. CASE ~Dangling(k)
  <2>1. schoolDefault' = [schoolDefault EXCEPT ![c] = k]
    BY <1>3 DEF CommitDefault, Unless
  <2>2. k \in SchemeRows \cup {NoScheme}
    BY <1>1 DEF Held
  <2> HIDE DEF k, c
  <2>3. /\ schoolDefault' \in [Schools -> SchemeRows \cup {NoScheme}]
        /\ \A d \in Schools : schoolDefault'[d] = IF d = c THEN k ELSE schoolDefault[d]
    BY <1>1, <2>1, <2>2 DEF ReportInv, ReportTypes
  <2>4. \A d \in Schools : DefaultSound(d)'
    BY <1>1, <1>3, <2>3 DEF DefaultSound, Dangling, Foreign, Held, Exists, ReportInv
  <2>5. /\ task' = [v \in Requests |-> task'[v]]
        /\ \A v \in Requests : task'[v] \in {task[v], NoTask}
    BY <1>1 DEF Answered, ReportInv, ReportTypes
  <2>6. \A s : Checked(s) => Checked(s)'
    BY <1>1 DEF Checked, Held, Exists, Sat
  <2>7. \A v \in Requests : (task[v] # NoTask => Checked(task[v]))'
    BY <2>5, <2>6 DEF ReportInv
  <2>8. ReportTypes'
    BY <1>1, <2>3, <2>5 DEF ReportInv, ReportTypes, Exists, Sat
  <2> QED
    BY <1>1, <2>4, <2>7, <2>8 DEF ReportInv, OneDefault, PaperSound, Dangling, Foreign, Exists, Sat
<1> QED
  BY <1>2, <1>3

\* A step of one exam, to a row that is sound.
LEMMA PaperStep ==
    ASSUME ReportInv, UNCHANGED <<gradingScheme, schoolDefault>>,
           NEW x \in Papers, NEW row \in PaperRecords, NEW results,
           paper' = [paper EXCEPT ![x] = row], result' = [result EXCEPT ![x] = results],
           IsFiniteSet(DOMAIN results), DOMAIN results \subseteq Pupils,
           ~Dangling(row.scheme),
           ~row.moved /\ ~row.lent => ~Foreign(row.scheme, row.school),
           ~row.moved => \A p \in DOMAIN results : PupilSchool[p] = row.school,
           UNCHANGED task \/ \E w \in Requests : Answered(w)
    PROVE  ReportInv'
<1>1. /\ task' = [v \in Requests |-> task'[v]]
      /\ \A v \in Requests : task'[v] \in {task[v], NoTask}
  BY DEF Answered, ReportInv, ReportTypes
<1>2. /\ paper' = [y \in Papers |-> paper'[y]] /\ paper'[x] = row
      /\ result' = [y \in Papers |-> result'[y]] /\ result'[x] = results
      /\ \A y \in Papers \ {x} : paper'[y] = paper[y] /\ result'[y] = result[y]
  BY DEF ReportInv, ReportTypes
<1>3. Sat' = Sat \cup {x}
  BY <1>2, ReportsAssumption DEF Sat
<1>4. \A s : Checked(s) => Checked(s)'
  BY <1>3 DEF Checked, Held, Exists
<1>5. \A v \in Requests : (task[v] # NoTask => Checked(task[v]))'
  BY <1>1, <1>4 DEF ReportInv
<1>6. ReportTypes'
  BY <1>1, <1>2, <1>3 DEF ReportInv, ReportTypes, Exists
<1>7. \A y \in Sat' : PaperSound(y)'
  BY <1>2, <1>3 DEF ReportInv, PaperSound, Dangling, Foreign, Exists, Sat
<1>8. \A y \in Papers \ Sat' : DOMAIN result'[y] = {}
  BY <1>2, <1>3 DEF ReportInv
<1>9. OneDefault' /\ \A c \in Schools : DefaultSound(c)'
  BY DEF ReportInv, OneDefault, DefaultSound, Dangling, Foreign, Exists
<1> QED
  BY <1>5, <1>6, <1>7, <1>8, <1>9 DEF ReportInv

\* What PaperStep asks of an exam that is there already.
LEMMA SatSound ==
    ASSUME ReportInv, NEW x \in Sat
    PROVE  /\ x \in Papers /\ paper[x] \in PaperRecords /\ PaperSound(x)
           /\ IsFiniteSet(DOMAIN result[x]) /\ DOMAIN result[x] \subseteq Pupils
           /\ result = [result EXCEPT ![x] = result[x]]
           /\ paper = [paper EXCEPT ![x] = paper[x]]
  BY DEF ReportInv, ReportTypes, Sat

LEMMA CommitAttachStep ==
    ASSUME ReportInv, NEW w \in Requests, CommitAttach(w)
    PROVE  ReportInv'
<1>1. PICK x \in Sat, k \in SchemeRows \cup {NoScheme}, c \in Schools :
         x = task[w].paper /\ k = task[w].scheme /\ c = task[w].school
  BY DEF CommitAttach, Asked, ReportInv, Checked, Held
<1>2. /\ k = NoScheme \/ Held(k, c)
      /\ Answered(w) /\ UNCHANGED <<gradingScheme, schoolDefault, result, members>>
  BY <1>1 DEF CommitAttach, Asked, ReportInv, Checked
<1>3. CASE Dangling(k)
  BY <1>1, <1>2, <1>3, RefusedStep DEF CommitAttach, Unless
<1>4. CASE ~Dangling(k)
  <2> DEFINE lent == c # paper[x].school
             row == [paper[x] EXCEPT !.scheme = k, !.lent = lent]
  <2>1. x \in Papers /\ paper[x] \in PaperRecords /\ PaperSound(x)
    BY SatSound
  <2>2. paper' = [paper EXCEPT ![x] = row]
    BY <1>1, <1>4 DEF CommitAttach, Unless
  <2>3. lent \in BOOLEAN /\ k \in SchemeRows \cup {NoScheme}
    BY <1>2 DEF Held
  <2>4. ~lent => ~Foreign(k, paper[x].school)
    BY <1>2 DEF Foreign, Held
  <2> HIDE DEF lent
  <2>6. /\ row \in PaperRecords /\ row.school = paper[x].school /\ row.scheme = k
        /\ row.moved = paper[x].moved /\ row.lent = lent
    BY <2>1, <2>3 DEF PaperRecords
  <2> HIDE DEF row
  <2>7. /\ IsFiniteSet(DOMAIN result[x]) /\ DOMAIN result[x] \subseteq Pupils
        /\ result' = [result EXCEPT ![x] = result[x]]
    BY <1>2, SatSound
  <2>8. ~row.moved => \A p \in DOMAIN result[x] : PupilSchool[p] = row.school
    BY <2>1, <2>6 DEF PaperSound
  <2>9. Answered(w) /\ UNCHANGED <<gradingScheme, schoolDefault>>
    BY <1>2
  <2> QED
    BY <2>9, <1>4, <2>1, <2>4, <2>2, <2>6, <2>7, <2>8, PaperStep
<1> QED
  BY <1>3, <1>4

LEMMA CommitCreateStep ==
    ASSUME ReportInv, NEW w \in Requests, CommitCreate(w)
    PROVE  ReportInv'
<1>1. PICK x \in Papers, k \in SchemeRows \cup {NoScheme}, c \in Schools :
         x = task[w].paper /\ k = task[w].scheme /\ c = task[w].school
  BY DEF CommitCreate, Asked, ReportInv, Checked, Held
<1>2. /\ k = NoScheme \/ Held(k, c)
      /\ Answered(w) /\ UNCHANGED <<gradingScheme, schoolDefault, result, members>>
  BY <1>1 DEF CommitCreate, Asked, ReportInv, Checked
<1>3. CASE Dangling(k) \/ x \in Sat
  BY <1>1, <1>2, <1>3, RefusedStep DEF CommitCreate, Unless
<1>4. CASE ~(Dangling(k) \/ x \in Sat)
  <2> DEFINE row == [school |-> c, scheme |-> k, draft |-> TRUE,
                     moved |-> FALSE, lent |-> FALSE]
  <2>1. paper' = [paper EXCEPT ![x] = row]
    BY <1>1, <1>4 DEF CommitCreate, Unless
  <2>2. k \in SchemeRows \cup {NoScheme}
    BY <1>2 DEF Held
  <2>3. row \in PaperRecords /\ row.school = c /\ row.scheme = k
    BY <2>2 DEF PaperRecords
  <2> HIDE DEF row
  <2>4. ~Foreign(k, c)
    BY <1>2 DEF Foreign, Held
  <2>5. DOMAIN result[x] = {} /\ result' = [result EXCEPT ![x] = result[x]]
    BY <1>2, <1>4 DEF ReportInv, ReportTypes
  <2>6. IsFiniteSet(DOMAIN result[x])
    BY <2>5, FS_EmptySet
  <2>7. Answered(w) /\ UNCHANGED <<gradingScheme, schoolDefault>>
    BY <1>2
  <2> QED
    BY <2>7, <1>4, <2>1, <2>3, <2>4, <2>5, <2>6, PaperStep
<1> QED
  BY <1>3, <1>4

\* Finalising, moving house and grading: the exam's life outside.
LEMMA ExamStep ==
    ASSUME ReportInv, NEW x \in Papers,
           \/ Finalize(x)
           \/ \E c \in Schools : MovePaper(x, c)
           \/ \E p \in Pupils : Grade(x, p)
    PROVE  ReportInv'
<1>1. x \in Sat /\ UNCHANGED <<gradingScheme, schoolDefault, task>>
  BY DEF Finalize, MovePaper, Grade
<1> DEFINE r == paper[x]
           D == DOMAIN result[x]
<1>2. /\ r \in PaperRecords /\ IsFiniteSet(D) /\ D \subseteq Pupils
      /\ ~Dangling(r.scheme)
      /\ ~r.moved /\ ~r.lent => ~Foreign(r.scheme, r.school)
      /\ ~r.moved => \A p \in D : PupilSchool[p] = r.school
      /\ result = [result EXCEPT ![x] = result[x]]
      /\ paper = [paper EXCEPT ![x] = r]
  BY <1>1, SatSound DEF PaperSound
<1>3. CASE Finalize(x)
  <2> DEFINE row == [r EXCEPT !.draft = ~@]
  <2>1. paper' = [paper EXCEPT ![x] = row] /\ UNCHANGED result
    BY <1>1, <1>3 DEF Finalize, Sat, ReportInv, ReportTypes
  <2>2. /\ row \in PaperRecords /\ row.school = r.school /\ row.scheme = r.scheme
        /\ row.moved = r.moved /\ row.lent = r.lent
    BY <1>2 DEF PaperRecords
  <2> HIDE DEF row
  <2>3. /\ ~Dangling(row.scheme)
        /\ ~row.moved /\ ~row.lent => ~Foreign(row.scheme, row.school)
        /\ ~row.moved => \A p \in D : PupilSchool[p] = row.school
    BY <1>2, <2>2
  <2> QED
    BY <1>1, <1>2, <2>1, <2>2, <2>3, PaperStep
<1>4. ASSUME NEW c \in Schools, MovePaper(x, c)
      PROVE  ReportInv'
  <2> DEFINE row == [r EXCEPT !.school = c, !.moved = TRUE]
  <2>1. paper' = [paper EXCEPT ![x] = row] /\ UNCHANGED result
    BY <1>1, <1>4 DEF MovePaper, Sat, ReportInv, ReportTypes
  <2>2. row \in PaperRecords /\ row.scheme = r.scheme /\ row.moved
    BY <1>2 DEF PaperRecords
  <2> HIDE DEF row
  <2> QED
    BY <1>1, <1>2, <2>1, <2>2, PaperStep
<1>5. ASSUME NEW p \in Pupils, Grade(x, p)
      PROVE  ReportInv'
  <2>1. PICK results : /\ result' = [result EXCEPT ![x] = results]
                       /\ DOMAIN results = D \cup {p}
    BY <1>5 DEF Grade
  <2>2. (p \in D \/ PupilSchool[p] = r.school) /\ UNCHANGED paper
    BY <1>5 DEF Grade
  <2>3. IsFiniteSet(D \cup {p})
    BY <1>2, FS_AddElement
  <2> QED
    BY <1>1, <1>2, <2>1, <2>2, <2>3, PaperStep
<1> QED
  BY <1>3, <1>4, <1>5

LEMMA EnrolStep ==
    ASSUME ReportInv, UNCHANGED <<gradingScheme, schoolDefault, paper, result, task>>
    PROVE  ReportInv'
<1>1. \A s : Checked(s) => Checked(s)'
  BY DEF Checked, Held, Exists, Sat
<1>2. \A v \in Requests : (task[v] # NoTask => Checked(task[v]))'
  BY <1>1 DEF ReportInv
<1>3. ReportTypes'
  BY DEF ReportInv, ReportTypes, Exists, Sat
<1>4. OneDefault'
  BY DEF ReportInv, OneDefault, Exists
<1> QED
  BY <1>2, <1>3, <1>4 DEF ReportInv, PaperSound, DefaultSound, Dangling, Foreign, Exists, Sat

\* However many requests are served at a time: no scheme in use is missing or another
\* institution's, nobody has two defaults, and the statistics agree on who passed.
THEOREM ReportsStaySound == ReportsSpec => []ReportsSound
<1>1. ReportsInit => ReportInv
  <2> SUFFICES ASSUME ReportsInit PROVE ReportInv
    OBVIOUS
  <2>1. PICK S \in SUBSET SchemeRows, s \in Scales :
           gradingScheme = [g \in SchemeRows |->
               IF g \in S THEN [owner |-> System, scale |-> s, flagged |-> FALSE]
               ELSE NoScheme]
    BY DEF ReportsInit
  <2> DEFINE row == [owner |-> System, scale |-> s, flagged |-> FALSE]
  <2>2. row \in SchemeRecords /\ row.owner = System
    BY DEF SchemeRecords
  <2>3. \A g \in SchemeRows : gradingScheme[g] \in {row, NoScheme}
    BY <2>1
  <2> HIDE DEF row
  <2>4. \A g \in SchemeRows : Exists(g) => gradingScheme[g] = row
    BY <2>3 DEF Exists
  <2>5. Sat = {}
    BY DEF ReportsInit, Sat
  <2>6. \A x \in Papers : DOMAIN result[x] = {}
    BY DEF ReportsInit
  <2>7. ReportTypes
    BY <2>1, <2>2, <2>4, <2>5, <2>6, FS_EmptySet DEF ReportsInit, ReportTypes
  <2>8. OneDefault
    BY <2>2, <2>4 DEF OneDefault
  <2>9. \A c \in Schools : DefaultSound(c)
    BY DEF ReportsInit, DefaultSound, Dangling, Foreign
  <2> QED
    BY <2>5, <2>6, <2>7, <2>8, <2>9 DEF ReportsInit, ReportInv
<1>2. ReportInv /\ [ReportsNext]_reportVars => ReportInv'
  <2> SUFFICES ASSUME ReportInv, [ReportsNext]_reportVars PROVE ReportInv'
    OBVIOUS
  <2>1. CASE UNCHANGED reportVars
    BY <2>1, EnrolStep DEF reportVars
  <2>2. CASE \E p \in Pupils : Enrol(p)
    BY <2>2, EnrolStep DEF Enrol
  <2> QED
    BY <2>1, <2>2, BeginSaveStep, BeginDeleteStep, BeginUseStep, CommitSaveStep,
       CommitDeleteStep, CommitAttachStep, CommitCreateStep, CommitDefaultStep, ExamStep
       DEF ReportsNext
<1> QED
  BY <1>1, <1>2, ReportsFollow, PTL DEF ReportsSpec

-----------------------------------------------------------------------------
(***************************************************************************)
(* The way through Moodle's web services.  The slots a synchronization     *)
(* records are those of the quiz it was told of only if exam and quiz then *)
(* have the same questions in the same order.  From there on a row that    *)
(* still carries a slot carries the one of its question in that quiz,      *)
(* whatever happens to positions.  So it is while a synchronization waits, *)
(* unless another one commits: the rows it has loaded are those there, with*)
(* the references it has loaded, or they are gone.                         *)
(***************************************************************************)
PositionsOk ==
    /\ position \in [Candidates -> Nat \cup {Unset}]
    /\ \A p, q \in Placed : position[p] = position[q] => p = q

\* What carries references carries those of quiz k.
RefsFollow(k) ==
    /\ k \in DOMAIN quizzes
    /\ DOMAIN quizzes[k] \subseteq Nat
    /\ \A i, j \in DOMAIN quizzes[k] : quizzes[k][i] = quizzes[k][j] => i = j
    /\ \A q \in Candidates :
          \/ refs[q] = NoRefs
          \/ /\ refs[q].slot \in DOMAIN quizzes[k]
             /\ quizzes[k][refs[q].slot] = q

\* A request that waits has loaded an order of rows; those that are not gone are
\* still there.
OrderOk(w) ==
    /\ sync[w].quiz \in DOMAIN quizzes
    /\ \E n \in Nat : sync[w].order \in [1..n -> Candidates]
    /\ \A i, j \in DOMAIN sync[w].order : sync[w].order[i] = sync[w].order[j] => i = j
    /\ Loaded(w) \ gone[w] \subseteq Placed

\* What the other rows carry.
AsLoaded(w) ==
    \A q \in Candidates : refs[q] = IF q \in Loaded(w) \ gone[w] THEN sync[w].had[q] ELSE NoRefs

Pending(w) == OrderOk(w) /\ (w \notin crossed => AsLoaded(w))

RoundInv ==
    /\ PositionsOk
    /\ DOMAIN sync \subseteq Syncs /\ gone = [w \in Syncs |-> gone[w]]
    /\ \A w \in DOMAIN sync : Pending(w)
    /\ \A w \in Syncs \ DOMAIN sync : gone[w] = {}
    /\ refs = [q \in Candidates |-> refs[q]]
    /\ \A q \in Candidates \ Placed : refs[q] = NoRefs
    /\ \E S : quizzes \in Seq(S)
    /\ \A k \in faithful : RefsFollow(k)
    /\ AnswersFindTheirQuestion

-----------------------------------------------------------------------------
LEMMA PlacedIsFinite == IsFiniteSet(Placed) /\ Cardinality(Placed) \in Nat
<1>1. Placed \in SUBSET Candidates
    BY DEF Placed
<1> QED
    BY <1>1, FS_Subset, FS_CardinalityType, RoundTripAssumption

\* An order of the members of a finite set names each of them once.
LEMMA OrderIsOnto ==
    ASSUME NEW S, IsFiniteSet(S), NEW order \in SetToSeqs(S)
    PROVE  /\ Cardinality(S) \in Nat
           /\ order \in [1..Cardinality(S) -> S]
           /\ \A i, j \in 1..Cardinality(S) : order[i] = order[j] => i = j
           /\ \A x \in S : \E i \in 1..Cardinality(S) : order[i] = x
<1> DEFINE n == Cardinality(S)
<1>1. n \in Nat
    BY FS_CardinalityType
<1>2. order \in [1..n -> S] /\ \A i, j \in 1..n : i # j => order[i] # order[j]
    BY DEF SetToSeqs
<1> HIDE DEF n
<1>3. order \in Injection(1..n, S)
    BY <1>2 DEF Injection, IsInjective
<1>4. IsFiniteSet(1..n) /\ Cardinality(1..n) = n
    BY <1>1, FS_Interval
<1>5. order \in Surjection(1..n, S)
    BY <1>3, <1>4, FS_Injection DEF n
<1> QED
    BY <1>1, <1>2, <1>5 DEF Surjection, n

\* The order of distinct positions exists: a row's place in it is the number of
\* rows up to its position.
LEMMA PaperOrdersPlaced ==
    ASSUME PositionsOk
    PROVE  Paper \in SetToSeqs(Placed)
<1> DEFINE n == Cardinality(Placed)
           Upto(q) == {p \in Placed : position[p] <= position[q]}
           place == [q \in Placed |-> Cardinality(Upto(q))]
<1>1. IsFiniteSet(Placed) /\ n \in Nat
    BY PlacedIsFinite
<1>2. \A q \in Placed : position[q] \in Nat
    BY DEF PositionsOk, Placed
<1>3. ASSUME NEW q \in Placed
      PROVE  /\ IsFiniteSet(Upto(q)) /\ Cardinality(Upto(q)) \in 1..n
             /\ q \in Upto(q)
    <2>1. Upto(q) \in SUBSET Placed /\ q \in Upto(q)
        BY <1>2
    <2> HIDE DEF Upto
    <2>2. IsFiniteSet(Upto(q)) /\ Cardinality(Upto(q)) <= n
        BY <1>1, <2>1, FS_Subset
    <2>3. Cardinality(Upto(q)) \in Nat
        BY <2>2, FS_CardinalityType
    <2>4. Cardinality(Upto(q)) # 0
        BY <2>1, <2>2, FS_EmptySet
    <2> HIDE DEF n
    <2> QED
        BY <1>1, <2>1, <2>2, <2>3, <2>4
<1>4. ASSUME NEW p \in Placed, NEW q \in Placed, position[p] < position[q]
      PROVE  place[p] < place[q]
    <2>1. Upto(p) \in SUBSET Upto(q) /\ q \notin Upto(p)
        BY <1>2, <1>4
    <2>2. q \in Upto(q) /\ IsFiniteSet(Upto(q))
        BY <1>3
    <2>3. Cardinality(Upto(p)) \in Nat /\ Cardinality(Upto(q)) \in Nat
        BY <1>3, FS_CardinalityType
    <2>4. place[p] = Cardinality(Upto(p)) /\ place[q] = Cardinality(Upto(q))
        OBVIOUS
    <2> HIDE DEF Upto, place
    <2>5. Cardinality(Upto(p)) <= Cardinality(Upto(q)) /\ Cardinality(Upto(p)) # Cardinality(Upto(q))
        BY <2>1, <2>2, FS_Subset
    <2> QED
        BY <2>3, <2>4, <2>5
<1>5. place \in [Placed -> 1..n]
    BY <1>3
<1> HIDE DEF n, place
<1>6. \A p, q \in Placed : place[p] = place[q] => p = q
    <2> SUFFICES ASSUME NEW p \in Placed, NEW q \in Placed, place[p] = place[q], p # q
                 PROVE  FALSE
        OBVIOUS
    <2>1. position[p] # position[q]
        BY DEF PositionsOk
    <2>2. place[p] \in Nat /\ place[q] \in Nat
        BY <1>5
    <2> QED
        BY <1>2, <1>4, <2>1, <2>2
<1>7. place \in Injection(Placed, 1..n)
    BY <1>5, <1>6 DEF Injection, IsInjective
<1>8. IsFiniteSet(1..n) /\ Cardinality(1..n) = n
    BY <1>1, FS_Interval
<1>9. place \in Surjection(Placed, 1..n)
    BY <1>7, <1>8, FS_Injection DEF n
<1> DEFINE order == [i \in 1..n |-> CHOOSE q \in Placed : place[q] = i]
<1>10. \A i \in 1..n : order[i] \in Placed /\ place[order[i]] = i
    BY <1>9 DEF Surjection
<1>11. order = [i \in 1..n |-> order[i]]
    OBVIOUS
<1> HIDE DEF order
<1>12. order \in [1..n -> Placed] /\ \A i, j \in 1..n : i # j => order[i] # order[j]
    BY <1>10, <1>11
<1>13. order \in SetToSeqs(Placed)
    BY <1>12 DEF SetToSeqs, n
<1>14. ASSUME NEW i \in 1..n, NEW j \in 1..n, i < j
       PROVE  position[order[i]] < position[order[j]]
    <2>1. /\ order[i] \in Placed /\ order[j] \in Placed
          /\ place[order[i]] = i /\ place[order[j]] = j
        BY <1>10
    <2>2. position[order[i]] \in Nat /\ position[order[j]] \in Nat
        BY <1>2, <2>1
    <2>3. ~(position[order[j]] < position[order[i]])
        BY <1>4, <1>14, <2>1
    <2>4. position[order[i]] # position[order[j]]
        BY <1>14, <2>1 DEF PositionsOk
    <2> QED
        BY <2>2, <2>3, <2>4
<1>15. \A i, j \in DOMAIN order : i < j => position[order[i]] < position[order[j]]
    BY <1>12, <1>14
<1> QED
    BY <1>13, <1>15 DEF Paper

-----------------------------------------------------------------------------
\* An edit keeps the references as long as it keeps what they say.
LEMMA EditKeeps ==
    ASSUME RoundInv, Edit, PositionsOk', NEW out \in SUBSET Candidates,
           Placed \ out \subseteq Placed',
           refs' = [q \in Candidates |-> IF q \in out THEN NoRefs ELSE refs[q]],
           gone' = [w \in Syncs |-> IF w \in DOMAIN sync THEN gone[w] \cup out ELSE gone[w]],
           \A q \in Candidates \ Placed' : refs'[q] = NoRefs
    PROVE  RoundInv'
<1>1. /\ filed' = {} /\ quizzes' = quizzes /\ faithful' = faithful /\ sync' = sync
      /\ crossed' = crossed
    BY DEF Edit
<1>2. AnswersFindTheirQuestion'
    BY <1>1 DEF AnswersFindTheirQuestion
<1>3. \A k \in faithful : RefsFollow(k)'
    BY <1>1 DEF RoundInv, RefsFollow, NoRefs
<1>4. \E S : quizzes' \in Seq(S)
    BY <1>1 DEF RoundInv
<1>5. \A q \in (Candidates \ Placed)' : refs'[q] = NoRefs'
    BY DEF NoRefs
<1>6. ASSUME NEW w \in DOMAIN sync
      PROVE  Pending(w)'
    <2>1. /\ w \in Syncs /\ gone'[w] = gone[w] \cup out /\ Loaded(w)' = Loaded(w)
          /\ Pending(w)
        BY <1>1 DEF RoundInv, Loaded
    <2>2. OrderOk(w)'
        BY <1>1, <2>1 DEF Pending, OrderOk
    <2>3. ASSUME AsLoaded(w), NEW q \in Candidates
          PROVE  refs'[q] = IF q \in Loaded(w) \ gone'[w] THEN sync[w].had[q] ELSE NoRefs
        BY <2>1, <2>3 DEF AsLoaded
    <2> QED
        BY <1>1, <2>1, <2>2, <2>3 DEF Pending, AsLoaded, NoRefs
<1>7. refs' = [q \in Candidates |-> refs'[q]] /\ gone' = [w \in Syncs |-> gone'[w]]
    OBVIOUS
<1>8. \A w \in Syncs \ DOMAIN sync : gone'[w] = {}
    BY DEF RoundInv
<1> QED
    BY <1>1, <1>2, <1>3, <1>4, <1>5, <1>6, <1>7, <1>8 DEF RoundInv

LEMMA NothingOut ==
    ASSUME RoundInv, Edit, PositionsOk', Placed \subseteq Placed', refs' = refs, gone' = gone,
           \A q \in Candidates \ Placed' : refs'[q] = NoRefs
    PROVE  RoundInv'
<1> DEFINE out == {} \cap Candidates
<1>1. refs' = [q \in Candidates |-> IF q \in out THEN NoRefs ELSE refs[q]]
    BY DEF RoundInv
<1>2. gone = [w \in Syncs |-> gone[w]]
    BY DEF RoundInv
<1>3. gone' = [w \in Syncs |-> IF w \in DOMAIN sync THEN gone[w] \cup out ELSE gone[w]]
    BY <1>2
<1>4. out \in SUBSET Candidates /\ Placed \ out \subseteq Placed'
    OBVIOUS
<1> HIDE DEF out
<1> QED
    BY <1>1, <1>3, <1>4, EditKeeps

LEMMA AddRowKeeps ==
    ASSUME RoundInv, NEW q \in Candidates, AddRow(q)
    PROVE  RoundInv'
<1> DEFINE top == Max({0} \cup {position[p] : p \in Placed})
<1>1. \A p \in Placed : position[p] \in Nat
    BY DEF RoundInv, PositionsOk, Placed
<1>2. top \in Nat /\ \A p \in Placed : position[p] <= top
    <2> DEFINE T == {position[p] : p \in Placed}
    <2>1. IsFiniteSet(T)
        BY PlacedIsFinite, FiniteImage
    <2>2. {0} \cup T = T \cup {0}
        OBVIOUS
    <2>3. T \subseteq Nat
        BY <1>1
    <2>4. \A p \in Placed : position[p] \in T
        OBVIOUS
    <2> HIDE DEF T
    <2>5. IsFiniteSet({0} \cup T)
        BY <2>1, <2>2, FS_AddElement
    <2>6. {0} \cup T \subseteq Int /\ {0} \cup T # {}
        BY <2>3
    <2>7. Max({0} \cup T) \in {0} \cup T /\ \A y \in {0} \cup T : Max({0} \cup T) >= y
        BY <2>5, <2>6, LargestOfFinite
    <2>8. top = Max({0} \cup T)
        BY DEF T
    <2> HIDE DEF top
    <2>9. top \in Nat
        <3>1. {0} \cup T \subseteq Nat
            BY <2>3
        <3> QED
            BY <2>7, <2>8, <3>1
    <2>10. \A p \in Placed : top >= position[p]
        BY <2>4, <2>7, <2>8
    <2> QED
        BY <1>1, <2>9, <2>10
<1>3. /\ position' = [position EXCEPT ![q] = 1 + top]
      /\ q \notin Placed /\ refs' = refs /\ gone' = gone /\ Edit
    BY DEF AddRow
<1> HIDE DEF top
<1>4. position \in [Candidates -> Nat \cup {Unset}] /\ Unset \notin Nat
    BY RoundTripAssumption DEF RoundInv, PositionsOk
<1>5. /\ position' \in [Candidates -> Nat \cup {Unset}]
      /\ position'[q] = 1 + top
      /\ \A p \in Candidates \ {q} : position'[p] = position[p]
    BY <1>2, <1>3, <1>4
<1>6. Placed' = Placed \cup {q}
    <2>1. 1 + top # Unset
        BY <1>2, <1>4
    <2> QED
        BY <1>5, <2>1 DEF Placed
<1>7. PositionsOk'
    <2>1. \A p, r \in Placed : position[p] = position[r] => p = r
        BY DEF RoundInv, PositionsOk
    <2>2. \A p \in Placed : p \in Candidates \ {q} /\ position'[p] = position[p] /\ position'[p] <= top
        BY <1>2, <1>3, <1>5 DEF Placed
    <2>3. \A p, r \in Placed \cup {q} : position'[p] = position'[r] => p = r
        BY <1>1, <1>2, <1>5, <2>1, <2>2
    <2> QED
        BY <1>5, <1>6, <2>3 DEF PositionsOk
<1>9. \A p \in Candidates \ Placed' : refs'[p] = NoRefs
    BY <1>3, <1>6 DEF RoundInv
<1> QED
    BY <1>3, <1>6, <1>7, <1>9, NothingOut

LEMMA RemoveRowKeeps ==
    ASSUME RoundInv, NEW q \in Candidates, RemoveRow(q)
    PROVE  RoundInv'
<1>1. /\ position' = [position EXCEPT ![q] = Unset]
      /\ refs' = [refs EXCEPT ![q] = NoRefs] /\ Edit
      /\ gone' = [w \in Syncs |-> IF w \in DOMAIN sync THEN gone[w] \cup {q} ELSE gone[w]]
    BY DEF RemoveRow
<1>2. position \in [Candidates -> Nat \cup {Unset}] /\ refs = [p \in Candidates |-> refs[p]]
    BY DEF RoundInv, PositionsOk
<1>3. /\ position' \in [Candidates -> Nat \cup {Unset}]
      /\ position'[q] = Unset
      /\ \A p \in Candidates \ {q} : position'[p] = position[p]
    BY <1>1, <1>2
<1>4. Placed' = Placed \ {q}
    BY <1>3 DEF Placed
<1>5. PositionsOk'
    BY <1>3, <1>4 DEF RoundInv, PositionsOk, Placed
<1>6. refs' = [p \in Candidates |-> IF p \in {q} THEN NoRefs ELSE refs[p]]
    BY <1>1, <1>2
<1>7. \A p \in Candidates \ Placed' : refs'[p] = NoRefs
    BY <1>4, <1>6 DEF RoundInv
<1>8. {q} \in SUBSET Candidates /\ Placed \ {q} \subseteq Placed'
    BY <1>4
<1> QED
    BY <1>1, <1>5, <1>6, <1>7, <1>8, EditKeeps

LEMMA ReorderRowsKeeps ==
    ASSUME RoundInv, NEW order \in SetToSeqs(Placed), ReorderRows(order)
    PROVE  RoundInv'
<1> DEFINE n == Cardinality(Placed)
<1>1. /\ position' = [q \in Candidates |->
                        IF q \in Placed THEN CHOOSE i \in DOMAIN order : order[i] = q ELSE Unset]
      /\ refs' = refs /\ gone' = gone /\ Edit
    BY DEF ReorderRows
<1>2. /\ n \in Nat /\ order \in [1..n -> Placed]
      /\ \A x \in Placed : \E i \in 1..n : order[i] = x
    BY OrderIsOnto, PlacedIsFinite
<1> HIDE DEF n
<1>3. ASSUME NEW q \in Placed
      PROVE  position'[q] \in 1..n /\ order[position'[q]] = q
    <2>1. q \in Candidates /\ DOMAIN order = 1..n
        BY <1>2 DEF Placed
    <2>2. position'[q] = CHOOSE i \in 1..n : order[i] = q
        BY <1>1, <2>1
    <2> QED
        BY <1>2, <2>2
<1>4. \A q \in Candidates \ Placed : position'[q] = Unset
    BY <1>1
<1>5. position' \in [Candidates -> Nat \cup {Unset}]
    <2>1. position' = [q \in Candidates |-> position'[q]]
        BY <1>1
    <2>2. \A q \in Candidates : position'[q] \in Nat \cup {Unset}
        BY <1>2, <1>3, <1>4
    <2> QED
        BY <2>1, <2>2
<1>6. Placed' = Placed
    <2>1. Placed \subseteq Candidates /\ Unset \notin Nat
        BY RoundTripAssumption DEF Placed
    <2>2. \A q \in Placed : position'[q] # Unset
        BY <1>2, <1>3, <2>1
    <2> QED
        BY <1>4, <2>1, <2>2 DEF Placed
<1>7. PositionsOk'
    BY <1>3, <1>5, <1>6 DEF PositionsOk
<1>9. \A q \in Candidates \ Placed' : refs'[q] = NoRefs
    BY <1>1, <1>6 DEF RoundInv
<1> QED
    BY <1>1, <1>6, <1>7, <1>9, NothingOut

-----------------------------------------------------------------------------
\* A request goes on waiting over what touches nothing it has loaded.
LEMMA WaitsOn ==
    ASSUME NEW v, Pending(v), sync'[v] = sync[v], gone'[v] = gone[v], refs' = refs,
           DOMAIN quizzes \subseteq DOMAIN quizzes', Placed \subseteq Placed',
           v \notin crossed' => v \notin crossed
    PROVE  Pending(v)'
<1>1. Loaded(v)' = Loaded(v)
    BY DEF Loaded
<1>2. OrderOk(v)'
    BY <1>1 DEF Pending, OrderOk
<1>3. AsLoaded(v) => AsLoaded(v)'
    BY <1>1 DEF AsLoaded, NoRefs
<1> QED
    BY <1>2, <1>3 DEF Pending

LEMMA ExportKeeps == ASSUME RoundInv, Export PROVE RoundInv'
<1> DEFINE new == SelectSeq(Paper, LAMBDA q : q \notin Unscorable)
<1>1. /\ quizzes' = Append(quizzes, new)
      /\ position' = position /\ refs' = refs /\ faithful' = faithful /\ filed' = {}
      /\ sync' = sync /\ gone' = gone /\ crossed' = crossed
    BY DEF Export, syncVars
<1> HIDE DEF new
<1>2. PICK S : quizzes \in Seq(S)
    BY DEF RoundInv
<1>3. quizzes \in Seq(S \cup {new})
    BY <1>2
<1>4. quizzes' \in Seq(S \cup {new})
    BY <1>1, <1>3
<1>5. \A k \in DOMAIN quizzes : k \in DOMAIN quizzes' /\ quizzes'[k] = quizzes[k]
    BY <1>1, <1>3
<1>6. Placed' = Placed /\ PositionsOk'
    BY <1>1 DEF RoundInv, PositionsOk, Placed
<1>7. \A k \in faithful : RefsFollow(k)'
    BY <1>1, <1>5 DEF RoundInv, RefsFollow, NoRefs
<1>8. AnswersFindTheirQuestion'
    BY <1>1 DEF AnswersFindTheirQuestion
<1>9. \E T : quizzes' \in Seq(T)
    BY <1>4
<1>10. \A w \in DOMAIN sync : Pending(w)'
    <2>1. \A w \in DOMAIN sync : Pending(w) /\ sync'[w] = sync[w] /\ gone'[w] = gone[w]
        BY <1>1 DEF RoundInv
    <2>2. DOMAIN quizzes \subseteq DOMAIN quizzes'
        BY <1>5
    <2> QED
        BY <1>1, <1>6, <2>1, <2>2, WaitsOn
<1> QED
    BY <1>1, <1>6, <1>7, <1>8, <1>9, <1>10 DEF RoundInv, NoRefs

LEMMA SyncBeginsKeeps ==
    ASSUME RoundInv, NEW w \in Syncs, NEW k \in DOMAIN quizzes, NEW withIds \in BOOLEAN,
           SyncBegins(w, k, withIds)
    PROVE  RoundInv'
<1> DEFINE n == Cardinality(Placed)
           row == [quiz |-> k, ids |-> withIds, order |-> Paper, had |-> refs]
<1>1. /\ w \notin DOMAIN sync
      /\ sync' = [v \in DOMAIN sync \cup {w} |-> IF v = w THEN row ELSE sync[v]]
      /\ filed' = {} /\ position' = position /\ refs' = refs /\ quizzes' = quizzes
      /\ gone' = gone /\ crossed' = crossed /\ faithful' = faithful
    BY DEF SyncBegins
<1>2. /\ n \in Nat /\ Paper \in [1..n -> Placed] /\ Placed \subseteq Candidates
      /\ \A i, j \in 1..n : Paper[i] = Paper[j] => i = j
      /\ \A x \in Placed : \E i \in 1..n : Paper[i] = x
    <2>1. Paper \in SetToSeqs(Placed)
        BY PaperOrdersPlaced DEF RoundInv
    <2>2. Placed \subseteq Candidates
        BY DEF Placed
    <2> QED
        BY <2>1, <2>2, OrderIsOnto, PlacedIsFinite
<1>3. /\ sync'[w] = row /\ row.quiz = k /\ row.order = Paper /\ row.had = refs
      /\ DOMAIN sync' = DOMAIN sync \cup {w}
      /\ \A v \in DOMAIN sync : sync'[v] = sync[v]
    BY <1>1
<1>4. /\ Placed' = Placed /\ PositionsOk' /\ \A q \in Candidates \ Placed : refs[q] = NoRefs
      /\ gone[w] = {}
    BY <1>1 DEF RoundInv, PositionsOk, Placed
<1> HIDE DEF n, row
<1>5. Loaded(w)' = Placed
    BY <1>2, <1>3 DEF Loaded
<1>6. OrderOk(w)'
    <2>1. sync'[w].order \in [1..n -> Candidates]
        BY <1>2, <1>3
    <2>2. \A i, j \in DOMAIN sync'[w].order : sync'[w].order[i] = sync'[w].order[j] => i = j
        BY <1>2, <1>3
    <2> QED
        BY <1>1, <1>2, <1>3, <1>4, <1>5, <2>1, <2>2 DEF OrderOk
<1>7. AsLoaded(w)'
    BY <1>1, <1>3, <1>4, <1>5 DEF AsLoaded, NoRefs
<1>8. ASSUME NEW v \in DOMAIN sync
      PROVE  Pending(v)'
    <2>1. Pending(v) /\ Loaded(v)' = Loaded(v)
        BY <1>3 DEF RoundInv, Loaded
    <2> QED
        BY <1>1, <1>3, <1>4, <2>1 DEF Pending, OrderOk, AsLoaded, NoRefs
<1>9. AnswersFindTheirQuestion'
    BY <1>1 DEF AnswersFindTheirQuestion
<1>10. \A h \in faithful : RefsFollow(h)'
    BY <1>1 DEF RoundInv, RefsFollow, NoRefs
<1> QED
    BY <1>1, <1>3, <1>4, <1>6, <1>7, <1>8, <1>9, <1>10 DEF RoundInv, Pending, NoRefs

\* A request that ends: of what others have loaded nothing is said any more.
LEMMA SyncEnds ==
    ASSUME RoundInv, NEW w \in DOMAIN sync, Ends(w)
    PROVE  /\ DOMAIN sync' = DOMAIN sync \ {w} /\ DOMAIN sync' \subseteq Syncs
           /\ \A v \in DOMAIN sync' : sync'[v] = sync[v] /\ gone'[v] = gone[v]
           /\ gone' = [v \in Syncs |-> gone'[v]]
           /\ \A v \in Syncs \ DOMAIN sync' : gone'[v] = {}
           /\ filed' = {} /\ position' = position /\ quizzes' = quizzes
           /\ Placed' = Placed /\ PositionsOk' /\ AnswersFindTheirQuestion'
           /\ \E S : quizzes' \in Seq(S)
           /\ \A v \in DOMAIN sync' : OrderOk(v)' /\ Loaded(v)' = Loaded(v)
<1>1. /\ sync' = Restrict(sync, DOMAIN sync \ {w}) /\ gone' = [gone EXCEPT ![w] = {}]
      /\ filed' = {} /\ position' = position /\ quizzes' = quizzes
    BY DEF Ends
<1>2. /\ DOMAIN sync' = DOMAIN sync \ {w}
      /\ \A v \in DOMAIN sync \ {w} : sync'[v] = sync[v]
    BY <1>1 DEF Restrict
<1>3. /\ DOMAIN sync \subseteq Syncs /\ gone = [v \in Syncs |-> gone[v]]
      /\ \A v \in Syncs \ DOMAIN sync : gone[v] = {}
    BY DEF RoundInv
<1>4. /\ gone'[w] = {} /\ \A v \in Syncs \ {w} : gone'[v] = gone[v]
      /\ gone' = [v \in Syncs |-> gone'[v]]
    BY <1>1, <1>3
<1>5. /\ Placed' = Placed /\ PositionsOk' /\ AnswersFindTheirQuestion'
      /\ \E S : quizzes' \in Seq(S)
    BY <1>1 DEF RoundInv, PositionsOk, Placed, AnswersFindTheirQuestion
<1>6. ASSUME NEW v \in DOMAIN sync'
      PROVE  OrderOk(v)' /\ Loaded(v)' = Loaded(v)
    <2>1. v \in DOMAIN sync /\ v # w /\ OrderOk(v)
        BY <1>2 DEF RoundInv, Pending
    <2>2. sync'[v] = sync[v] /\ gone'[v] = gone[v]
        BY <1>2, <1>3, <1>4, <2>1
    <2> QED
        BY <1>1, <1>5, <2>1, <2>2 DEF OrderOk, Loaded
<1> QED
    BY <1>1, <1>2, <1>3, <1>4, <1>5, <1>6

LEMMA SyncFailsKeeps ==
    ASSUME RoundInv, NEW w \in DOMAIN sync, SyncFails(w)
    PROVE  RoundInv'
<1>1. /\ crossed' = crossed \ {w} /\ refs' = refs /\ faithful' = faithful /\ Ends(w)
    BY DEF SyncFails
<1>2. /\ DOMAIN sync' = DOMAIN sync \ {w} /\ DOMAIN sync' \subseteq Syncs
      /\ \A v \in DOMAIN sync' : sync'[v] = sync[v] /\ gone'[v] = gone[v]
      /\ quizzes' = quizzes /\ Placed' = Placed
    BY <1>1, SyncEnds
<1>3. \A v \in DOMAIN sync' : Pending(v)'
    <2>1. \A v \in DOMAIN sync' : Pending(v) /\ (v \notin crossed' => v \notin crossed)
        BY <1>1, <1>2 DEF RoundInv
    <2>2. DOMAIN quizzes \subseteq DOMAIN quizzes' /\ Placed \subseteq Placed'
        BY <1>2
    <2> QED
        BY <1>1, <1>2, <2>1, <2>2, WaitsOn
<1>4. \A h \in faithful : RefsFollow(h)'
    BY <1>1, <1>2 DEF RoundInv, RefsFollow, NoRefs
<1>5. /\ PositionsOk' /\ gone' = [v \in Syncs |-> gone'[v]]
      /\ \A v \in Syncs \ DOMAIN sync' : gone'[v] = {}
      /\ \E S : quizzes' \in Seq(S)
    BY <1>1, SyncEnds
<1>6. AnswersFindTheirQuestion'
    BY <1>1, SyncEnds
<1>7. refs' = [q \in Candidates |-> refs'[q]] /\ \A q \in Candidates \ Placed' : refs'[q] = NoRefs
    BY <1>1, <1>2 DEF RoundInv
<1> QED
    BY <1>1, <1>2, <1>3, <1>4, <1>5, <1>6, <1>7 DEF RoundInv, NoRefs

LEMMA SyncCommitsKeeps ==
    ASSUME RoundInv, NEW w \in DOMAIN sync, SyncCommits(w)
    PROVE  RoundInv'
<1> DEFINE k == sync[w].quiz
           order == sync[w].order
           At(q) == CHOOSE i \in DOMAIN order : order[i] = q
<1>1. /\ refs' = [q \in Candidates |-> IF q \in Dirty(w) THEN Recorded(w, q) ELSE refs[q]]
      /\ Dirty(w) \cap gone[w] = {} /\ Ends(w)
      /\ crossed' = DOMAIN sync \ {w}
      /\ faithful' = IF quizzes[k] = order /\ w \notin crossed THEN {k} ELSE {}
    BY DEF SyncCommits
<1>2. PICK n \in Nat : order \in [1..n -> Candidates]
    BY DEF RoundInv, Pending, OrderOk
<1>3. /\ k \in DOMAIN quizzes /\ Loaded(w) \ gone[w] \subseteq Placed
      /\ \A i, j \in 1..n : order[i] = order[j] => i = j
    BY <1>2 DEF RoundInv, Pending, OrderOk
<1>4. Dirty(w) \subseteq Loaded(w) /\ Dirty(w) \subseteq Placed
    BY <1>1, <1>3 DEF Dirty
<1>5. ASSUME NEW q \in Loaded(w)
      PROVE  /\ At(q) \in 1..n /\ order[At(q)] = q
             /\ Recorded(w, q).slot = At(q)
    <2>1. \E i \in 1..n : order[i] = q
        BY <1>2 DEF Loaded
    <2>2. DOMAIN order = 1..n
        BY <1>2
    <2> QED
        BY <2>1, <2>2 DEF Recorded
<1> HIDE DEF At
<1>6. \A q \in Candidates \ Placed : refs'[q] = NoRefs
    BY <1>1, <1>4 DEF RoundInv
<1>0. quizzes' = quizzes
    BY <1>1 DEF Ends
<1>7. ASSUME NEW h, h = k, quizzes[k] = order, w \notin crossed
      PROVE  RefsFollow(h)'
    <2>1. DOMAIN quizzes'[h] = 1..n /\ 1..n \subseteq Nat /\ quizzes'[h] = order
        BY <1>0, <1>2, <1>7
    <2>2. AsLoaded(w)
        BY <1>7 DEF RoundInv, Pending
    <2>3. ASSUME NEW q \in Candidates, refs'[q] # NoRefs
          PROVE  refs'[q].slot \in 1..n /\ order[refs'[q].slot] = q
        <3>1. CASE q \in Dirty(w)
            BY <1>1, <1>4, <1>5, <3>1
        <3>2. CASE q \notin Dirty(w)
            <4>1. refs'[q] = refs[q]
                BY <1>1, <3>2
            <4>2. q \in Loaded(w) /\ refs[q] = sync[w].had[q]
                BY <2>2, <2>3, <4>1 DEF AsLoaded
            <4>3. refs'[q] = Recorded(w, q)
                BY <3>2, <4>1, <4>2 DEF Dirty
            <4> QED
                BY <1>5, <4>2, <4>3
        <3> QED
            BY <3>1, <3>2
    <2>4. /\ h \in DOMAIN quizzes'
          /\ \A i, j \in DOMAIN quizzes'[h] : quizzes'[h][i] = quizzes'[h][j] => i = j
        BY <1>0, <1>3, <1>7, <2>1
    <2>5. \A q \in Candidates : \/ refs'[q] = NoRefs
                              \/ /\ refs'[q].slot \in DOMAIN quizzes'[h]
                                 /\ quizzes'[h][refs'[q].slot] = q
        BY <2>1, <2>3
    <2>6. DOMAIN quizzes'[h] \subseteq Nat
        BY <2>1
    <2> QED
        BY <2>1, <2>4, <2>5, <2>6 DEF RefsFollow, NoRefs
<1>8. \A h \in faithful' : RefsFollow(h)'
    <2>1. ASSUME NEW h \in faithful'
          PROVE  quizzes[k] = order /\ w \notin crossed /\ h = k
        BY <1>1
    <2> QED
        BY <1>7, <2>1
<1>9. \A v \in DOMAIN sync' : Pending(v)'
    BY <1>1, SyncEnds DEF Pending
<1>10. refs' = [q \in Candidates |-> refs'[q]]
    BY <1>1
<1> QED
    BY <1>1, <1>6, <1>8, <1>9, <1>10, SyncEnds DEF RoundInv, NoRefs

\* Of the rows only the one the student answered carries the slot.
LEMMA ImportKeeps ==
    ASSUME RoundInv, NEW k \in DOMAIN quizzes, Import(k)
    PROVE  RoundInv'
<1>1. /\ filed' = AnswersOf(k)
      /\ position' = position /\ refs' = refs /\ quizzes' = quizzes /\ faithful' = faithful
      /\ sync' = sync /\ gone' = gone /\ crossed' = crossed
    BY DEF Import, syncVars
<1>2. Placed' = Placed /\ PositionsOk'
    BY <1>1 DEF RoundInv, PositionsOk, Placed
<1>3. \A h \in faithful : RefsFollow(h)'
    BY <1>1 DEF RoundInv, RefsFollow, NoRefs
<1>4. ASSUME NEW a \in AnswersOf(k), a.quiz \in faithful, a.given \in Placed,
             refs[a.given].quiz = a.quiz
      PROVE  a.to = a.given
    <2>1. PICK s \in DOMAIN quizzes[k] :
             a = [quiz |-> k, slot |-> s, given |-> quizzes[k][s],
                  to |-> Resolve(s, MoodleId(k, s))]
        BY DEF AnswersOf
    <2>2. PICK q \in Placed : q = a.given
        BY <1>4
    <2>3. a.quiz = k /\ q = quizzes[k][s] /\ a.to = Resolve(s, MoodleId(k, s))
        BY <2>1, <2>2
    <2>4. RefsFollow(k) /\ refs[q].quiz = k /\ q \in Candidates
        BY <1>4, <2>2, <2>3 DEF RoundInv, Placed
    <2>5. k # Unset
        <3>1. PICK S : quizzes \in Seq(S)
            BY DEF RoundInv
        <3>2. k \in Nat
            BY <3>1
        <3> QED
            BY <3>2, RoundTripAssumption
    <2>6. refs[q] # NoRefs
        BY <2>4, <2>5 DEF NoRefs
    <2>7. refs[q].slot = s
        BY <2>3, <2>4, <2>6 DEF RefsFollow
    <2>8. s \in Nat /\ s # Unset
        BY <2>4, RoundTripAssumption DEF RefsFollow
    <2>9. ASSUME NEW p \in BySlot(s)
          PROVE  p = q
        <3>1. p \in Candidates /\ refs[p].slot = s
            BY DEF BySlot, Placed
        <3>2. refs[p] # NoRefs
            BY <2>8, <3>1 DEF NoRefs
        <3> QED
            BY <2>3, <2>4, <3>1, <3>2 DEF RefsFollow
    <2>10. BySlot(s) = {q}
        BY <2>7, <2>9 DEF BySlot
    <2>11. Resolve(s, MoodleId(k, s)) = CHOOSE p \in {q} : TRUE
        BY <2>10 DEF Resolve
    <2> QED
        BY <2>2, <2>3, <2>11
<1>5. AnswersFindTheirQuestion'
    BY <1>1, <1>2, <1>4 DEF AnswersFindTheirQuestion
<1>6. \A w \in DOMAIN sync : Pending(w)'
    <2>1. \A w \in DOMAIN sync : Pending(w) /\ sync'[w] = sync[w] /\ gone'[w] = gone[w]
        BY <1>1 DEF RoundInv
    <2> QED
        BY <1>1, <1>2, <2>1, WaitsOn
<1> QED
    BY <1>1, <1>2, <1>3, <1>5, <1>6 DEF RoundInv, NoRefs

LEMMA RoundStarts == RoundInit => RoundInv
<1> SUFFICES ASSUME RoundInit PROVE RoundInv
    OBVIOUS
<1>1. /\ position \in [Candidates -> (1..Cardinality(Candidates)) \cup {Unset}]
      /\ \A p, q \in Candidates : position[p] = position[q] => p = q \/ position[p] = Unset
      /\ refs = [q \in Candidates |-> NoRefs]
      /\ quizzes = <<>> /\ faithful = {} /\ filed = {}
      /\ sync = [w \in {} |-> <<>>] /\ gone = [w \in Syncs |-> {}]
    BY DEF RoundInit
<1>2. Cardinality(Candidates) \in Nat
    BY RoundTripAssumption, FS_CardinalityType
<1>3. position \in [Candidates -> Nat \cup {Unset}]
    BY <1>1, <1>2
<1>4. PositionsOk
    BY <1>1, <1>3 DEF PositionsOk, Placed
<1>5. quizzes \in Seq({})
    BY <1>1
<1>6. \E S : quizzes \in Seq(S)
    BY <1>5
<1>7. AnswersFindTheirQuestion
    BY <1>1 DEF AnswersFindTheirQuestion
<1>8. \A k \in faithful : RefsFollow(k)
    BY <1>1
<1>9. refs = [q \in Candidates |-> refs[q]] /\ \A q \in Candidates : refs[q] = NoRefs
    BY <1>1
<1>10. DOMAIN sync = {} /\ gone = [w \in Syncs |-> gone[w]] /\ \A w \in Syncs : gone[w] = {}
    BY <1>1
<1> QED
    BY <1>4, <1>6, <1>7, <1>8, <1>9, <1>10 DEF RoundInv

LEMMA RoundStep == RoundInv /\ [RoundNext]_roundVars => RoundInv'
<1> SUFFICES ASSUME RoundInv, [RoundNext]_roundVars PROVE RoundInv'
    OBVIOUS
<1>1. CASE UNCHANGED roundVars
    <2>1. /\ position' = position /\ refs' = refs /\ quizzes' = quizzes
          /\ faithful' = faithful /\ filed' = filed
          /\ sync' = sync /\ gone' = gone /\ crossed' = crossed
        BY <1>1 DEF roundVars, syncVars
    <2>2. Placed' = Placed /\ PositionsOk' /\ AnswersFindTheirQuestion'
        BY <2>1 DEF RoundInv, PositionsOk, Placed, AnswersFindTheirQuestion
    <2>3. \A w \in DOMAIN sync : Pending(w)'
        <3>1. \A w \in DOMAIN sync : Pending(w) /\ sync'[w] = sync[w] /\ gone'[w] = gone[w]
            BY <2>1 DEF RoundInv
        <3> QED
            BY <2>1, <2>2, <3>1, WaitsOn
    <2> QED
        BY <2>1, <2>2, <2>3 DEF RoundInv, RefsFollow, NoRefs
<1>2. CASE RoundNext
    <2>1. DOMAIN sync \subseteq Syncs
        BY DEF RoundInv
    <2>2. ASSUME NEW w \in Syncs, SyncCommits(w) \/ SyncFails(w)
          PROVE  RoundInv'
        BY <2>2, SyncCommitsKeeps, SyncFailsKeeps DEF SyncCommits, SyncFails
    <2> QED
        BY <1>2, <2>2, AddRowKeeps, RemoveRowKeeps, ReorderRowsKeeps, ExportKeeps,
           SyncBeginsKeeps, ImportKeeps DEF RoundNext
<1> QED
    BY <1>1, <1>2

-----------------------------------------------------------------------------
(***************************************************************************)
(* Results that come as files.  A row of an attempt is what its attempt    *)
(* makes it: the answers as they are mapped.  While every file lists all   *)
(* attempts in order, the number of an attempt is always the number of     *)
(* attempts up to it that have a mapping, and so is its key the same in    *)
(* every file.                                                             *)
(***************************************************************************)
MappedUpTo(i) == {j \in 1..i : Mapped(j)}
Number(i) == Cardinality(MappedUpTo(i))
RowOf(i) == [of |-> i, number |-> Number(i), key |-> Key(i, Number(i)), answers |-> AnswersIn(i)]

RowSound(r) == r.of \in DOMAIN taken /\ Mapped(r.of) /\ r.answers = AnswersIn(r.of)

FilesInv ==
    /\ likeness \in [Texts \X Stems -> Degrees]
    /\ \E S : taken \in Seq(S)
    /\ \A i \in DOMAIN taken : taken[i].layout \in Layouts
    /\ \A r \in stored : RowSound(r)
    /\ regular => \A r \in stored : r = RowOf(r.of)
    /\ AttemptsFiledOnce

-----------------------------------------------------------------------------
\* Induction from 0 to n, of membership in a set.
LEMMA CountingUp ==
    ASSUME NEW n \in Nat, NEW Good, 0 \in Good,
           \A m \in 0..(n - 1) : m \in Good => m + 1 \in Good
    PROVE  \A m \in 0..n : m \in Good
<1> DEFINE Bad == {m \in 0..n : m \notin Good}
<1>1. SUFFICES ASSUME Bad # {} PROVE FALSE
    OBVIOUS
<1>2. Bad \in SUBSET (0..n) /\ Bad \subseteq Int
    OBVIOUS
<1>3. IsFiniteSet(Bad)
    <2>1. IsFiniteSet(0..n)
        BY FS_Interval
    <2> HIDE DEF Bad
    <2> QED
        BY <1>2, <2>1, FS_Subset
<1>4. PICK m \in Bad : \A k \in Bad : m <= k
    <2> HIDE DEF Bad
    <2> QED
        BY <1>1, <1>2, <1>3, SmallestOfFinite
<1>5. m \in 0..n /\ m \notin Good /\ m # 0
    OBVIOUS
<1>6. m - 1 \in 0..(n - 1) /\ (m - 1) + 1 = m
    BY <1>5
<1>7. m - 1 \notin Bad
    BY <1>4, <1>6
<1>8. m - 1 \in Good
    BY <1>6, <1>7
<1> QED
    BY <1>5, <1>6, <1>8

\* The rows after each of the first n lines of a file.
IsRows(g, n, file) ==
    g = [m \in 0..n |-> IF m = 0 THEN [counted |-> 0, kept |-> stored]
                        ELSE Persist(g[m - 1], file[m])]

LEMMA StoredUnfolds ==
    ASSUME NEW file
    PROVE  StoredFrom(file) = (CHOOSE g : IsRows(g, Len(file), file))[Len(file)].kept
    BY DEF StoredFrom, IsRows

LEMMA RowsAt ==
    ASSUME NEW g, NEW n, NEW file, IsRows(g, n, file), NEW m \in 0..n
    PROVE  g[m] = IF m = 0 THEN [counted |-> 0, kept |-> stored]
                  ELSE Persist(g[m - 1], file[m])
    BY DEF IsRows

LEMMA RowsExist ==
    ASSUME NEW n \in Nat, NEW file
    PROVE  \E g : IsRows(g, n, file)
<1> DEFINE Good == {m \in Nat : \E g : IsRows(g, m, file)}
           start == [counted |-> 0, kept |-> stored]
<1>1. 0 \in Good
    <2> DEFINE g == [m \in 0..0 |-> start]
    <2>1. g = [m \in 0..0 |-> IF m = 0 THEN start ELSE Persist(g[m - 1], file[m])]
        OBVIOUS
    <2> HIDE DEF g
    <2>2. IsRows(g, 0, file)
        BY <2>1 DEF IsRows
    <2> QED
        BY <2>2
<1>2. ASSUME NEW m \in 0..(n - 1), m \in Good
      PROVE  m + 1 \in Good
    <2>1. PICK g : IsRows(g, m, file)
        BY <1>2
    <2> DEFINE h == [k \in 0..(m + 1) |-> IF k = m + 1 THEN Persist(g[m], file[m + 1]) ELSE g[k]]
    <2>2. m \in Nat
        BY <1>2
    <2>3. ASSUME NEW k \in 0..(m + 1)
          PROVE  h[k] = IF k = 0 THEN start ELSE Persist(h[k - 1], file[k])
        <3>1. CASE k = m + 1
            <4>1. h[k] = Persist(g[m], file[k]) /\ k # 0
                BY <2>2, <3>1
            <4>2. h[k - 1] = g[m]
                BY <2>2, <3>1
            <4> HIDE DEF h
            <4> QED
                BY <4>1, <4>2
        <3>2. CASE k \in 0..m
            <4>1. h[k] = g[k]
                BY <2>2, <3>2
            <4>2. k # 0 => h[k - 1] = g[k - 1]
                BY <2>2, <3>2
            <4>3. g[k] = IF k = 0 THEN start ELSE Persist(g[k - 1], file[k])
                BY <2>1, <3>2, RowsAt
            <4> HIDE DEF h, start
            <4> QED
                BY <4>1, <4>2, <4>3
        <3> QED
            BY <2>2, <3>1, <3>2
    <2>4. h = [k \in 0..(m + 1) |-> h[k]]
        OBVIOUS
    <2> HIDE DEF h
    <2>5. IsRows(h, m + 1, file)
        BY <2>3, <2>4 DEF IsRows
    <2> QED
        BY <2>2, <2>5
<1> HIDE DEF Good
<1>3. n \in Good
    BY <1>1, <1>2, CountingUp
<1> QED
    BY <1>3 DEF Good

\* What a file stores is the end of a list of rows.
LEMMA StoredIs ==
    ASSUME NEW file, Len(file) \in Nat
    PROVE  \E g : IsRows(g, Len(file), file) /\ StoredFrom(file) = g[Len(file)].kept
<1> DEFINE g == CHOOSE h : IsRows(h, Len(file), file)
<1>1. IsRows(g, Len(file), file)
    <2>1. \E h : IsRows(h, Len(file), file)
        BY RowsExist
    <2> QED
        BY <2>1, Zenon
<1>2. StoredFrom(file) = g[Len(file)].kept
    BY StoredUnfolds
<1> QED
    BY <1>1, <1>2

-----------------------------------------------------------------------------
\* What an attempt makes of its row depends on it alone.
LEMMA SameAttempt ==
    ASSUME likeness' = likeness, NEW i, taken'[i] = taken[i]
    PROVE  /\ Mapped(i)' = Mapped(i)
           /\ AnswersIn(i)' = AnswersIn(i)
           /\ \A n : Key(i, n)' = Key(i, n)
<1>1. \A t : Match(t)' = Match(t)
    BY DEF Match, Likest, Lookalikes
<1>2. ColumnMap(taken[i].layout)' = ColumnMap(taken[i].layout)
    BY <1>1 DEF ColumnMap
<1>3. AnswersIn(i)' = AnswersIn(i)
    BY <1>2 DEF AnswersIn
<1>4. \A n : Key(i, n)' = Key(i, n)
    BY <1>3 DEF Key
<1> QED
    BY <1>2, <1>3, <1>4 DEF Mapped

LEMMA SameNumber ==
    ASSUME likeness' = likeness, NEW i \in Nat, \A j \in 1..i : taken'[j] = taken[j]
    PROVE  Number(i)' = Number(i)
<1>1. \A j \in 1..i : Mapped(j)' = Mapped(j)
    BY SameAttempt
<1>2. MappedUpTo(i)' = MappedUpTo(i)
    BY <1>1 DEF MappedUpTo
<1> QED
    BY <1>2 DEF Number

\* Answers that are mapped are mapped to their question.
LEMMA AnswersRight ==
    ASSUME FilesInv, ToldApart, NEW i \in DOMAIN taken, Mapped(i),
           NEW c \in DOMAIN AnswersIn(i)
    PROVE  AnswersIn(i)[c].to = Origin[AnswersIn(i)[c].from]
<1> DEFINE layout == taken[i].layout
           at == [d \in DOMAIN layout |-> Match(layout[d])]
<1>1. layout \in Layouts
    BY DEF FilesInv
<1>2. /\ layout # <<>> /\ Unmatched \notin {at[d] : d \in DOMAIN at}
      /\ ColumnMap(layout) = at
    BY DEF Mapped, ColumnMap
<1>3. layout \in [1..Cardinality(Texts) -> Texts]
    BY <1>1, <1>2 DEF Layouts, SetToSeqs
<1>4. /\ c \in DOMAIN layout
      /\ AnswersIn(i)[c].to = Match(layout[c]) /\ AnswersIn(i)[c].from = layout[c]
    BY <1>2 DEF AnswersIn
<1>5. Match(layout[c]) # Unmatched
    BY <1>2, <1>4
<1>6. PICK t \in Texts : t = layout[c]
    BY <1>3, <1>4
<1>7. Cardinality(Lookalikes(t)) = 1 /\ Match(t) = CHOOSE q \in Lookalikes(t) : TRUE
    BY <1>5, <1>6 DEF Match
<1>8. Origin[t] \in Stems
    BY DEF Stems
<1>9. Likest(t) = likeness[<<t, Origin[t]>>]
    <2> DEFINE D == {likeness[<<t, q>>] : q \in Stems}
               top == likeness[<<t, Origin[t]>>]
    <2>1. \A q \in Stems : likeness[<<t, q>>] \in 0..4 /\ likeness[<<t, q>>] <= top
        BY DEF FilesInv, Degrees, ToldApart
    <2>2. top \in D
        BY <1>8
    <2>3. ASSUME NEW y \in D
          PROVE  y \in Int /\ top \in Int /\ top >= y
        <3>1. PICK q \in Stems : y = likeness[<<t, q>>]
            OBVIOUS
        <3>2. top \in 0..4
            BY <1>8, <2>1
        <3> QED
            BY <2>1, <3>1, <3>2
    <2> HIDE DEF D, top
    <2>4. Max(D) \in D /\ \A y \in D : Max(D) >= y
        BY <2>2, <2>3 DEF Max
    <2>5. Max(D) = top
        BY <2>2, <2>3, <2>4
    <2> QED
        BY <2>5 DEF Likest, D, top
<1>10. Origin[t] \in Lookalikes(t)
    BY <1>8, <1>9 DEF Lookalikes
<1>11. IsFiniteSet(Lookalikes(t))
    <2>1. IsFiniteSet(Stems)
        BY FiniteImage, ResultFilesAssumption DEF Stems
    <2>2. Lookalikes(t) \in SUBSET Stems
        BY DEF Lookalikes
    <2> QED
        BY <2>1, <2>2, FS_Subset
<1>12. PICK x : Lookalikes(t) = {x}
    BY <1>7, <1>11, FS_Singleton
<1> QED
    BY <1>4, <1>6, <1>7, <1>10, <1>12

\* The numbers count the attempts with a mapping.
LEMMA NumberCounts ==
    ASSUME NEW i \in Nat
    PROVE  /\ Number(i) \in Nat
           /\ Number(0) = 0
           /\ Number(i + 1) = IF Mapped(i + 1) THEN Number(i) + 1 ELSE Number(i)
<1>1. IsFiniteSet(MappedUpTo(i))
    <2>1. IsFiniteSet(1..i) /\ MappedUpTo(i) \in SUBSET (1..i)
        BY FS_Interval DEF MappedUpTo
    <2> QED
        BY <2>1, FS_Subset
<1>2. MappedUpTo(0) = {}
    BY DEF MappedUpTo
<1>3. i + 1 \notin MappedUpTo(i)
    BY DEF MappedUpTo
<1>4. 1..(i + 1) = (1..i) \cup {i + 1}
    OBVIOUS
<1>5. MappedUpTo(i + 1) = IF Mapped(i + 1) THEN MappedUpTo(i) \cup {i + 1} ELSE MappedUpTo(i)
    BY <1>4 DEF MappedUpTo
<1>6. Cardinality(MappedUpTo(i) \cup {i + 1}) = Cardinality(MappedUpTo(i)) + 1
    BY <1>1, <1>3, FS_AddElement
<1> QED
    BY <1>1, <1>2, <1>5, <1>6, FS_EmptySet, FS_CardinalityType DEF Number

LEMMA NumbersApart ==
    ASSUME NEW i \in Nat, NEW j \in Nat, i < j, Mapped(j)
    PROVE  Number(i) # Number(j)
<1>1. MappedUpTo(i) \in SUBSET MappedUpTo(j)
    BY DEF MappedUpTo
<1>2. j \in MappedUpTo(j) /\ j \notin MappedUpTo(i)
    BY DEF MappedUpTo
<1>3. IsFiniteSet(MappedUpTo(j))
    <2>1. IsFiniteSet(1..j) /\ MappedUpTo(j) \in SUBSET (1..j)
        BY FS_Interval DEF MappedUpTo
    <2> QED
        BY <2>1, FS_Subset
<1> QED
    BY <1>1, <1>2, <1>3, FS_Subset DEF Number

\* Keys of two numbers agree only if they do not contain them.
LEMMA KeysAgree ==
    ASSUME NEW i, NEW j, NEW m, NEW n, Key(i, m) = Key(j, n), m # n
    PROVE  taken[i].start = NoTime /\ taken[j].start = NoTime /\ Key(j, n) = Key(j, 0)
<1> DEFINE a(k) == [c \in DOMAIN AnswersIn(k) |-> <<AnswersIn(k)[c].to, AnswersIn(k)[c].given>>]
<1>1. \A k, l : taken[k].start # NoTime => Key(k, l) = <<"begun", taken[k].start, l>>
    BY DEF Key
<1>2. \A k, l : taken[k].start = NoTime => Key(k, l) = <<"answers", a(k)>>
    BY DEF Key
<1> HIDE DEF a
<1>3. \A x, y, z : <<"begun", x, y>> # <<"answers", z>>
    OBVIOUS
<1>4. \A x, y : <<"begun", x, m>> # <<"begun", y, n>>
    OBVIOUS
<1> QED
    BY <1>1, <1>2, <1>3, <1>4

-----------------------------------------------------------------------------
LEMMA TakenIsSequence ==
    ASSUME FilesInv
    PROVE  Len(taken) \in Nat /\ DOMAIN taken = 1..Len(taken) /\ IsFiniteSet(DOMAIN taken)
<1>1. PICK S : taken \in Seq(S)
    BY DEF FilesInv
<1>2. Len(taken) \in Nat /\ DOMAIN taken = 1..Len(taken)
    BY <1>1, LenProperties
<1> QED
    BY <1>2, FS_Interval

LEMMA FileLines ==
    ASSUME FilesInv, NEW S \in SUBSET DOMAIN taken, NEW file \in SetToSeqs(S)
    PROVE  /\ Len(file) \in Nat /\ DOMAIN file = 1..Len(file)
           /\ \A n \in 1..Len(file) : file[n] \in DOMAIN taken
<1>1. IsFiniteSet(S)
    BY TakenIsSequence, FS_Subset
<1>2. Cardinality(S) \in Nat /\ file \in [1..Cardinality(S) -> S]
    BY <1>1, OrderIsOnto
<1>3. file \in Seq(S)
    BY <1>2, SeqDef
<1>4. Len(file) \in Nat /\ DOMAIN file = 1..Len(file)
    BY <1>3, LenProperties
<1> QED
    BY <1>2, <1>4

\* A line adds the row of its attempt, or nothing.
LEMMA PersistAdds ==
    ASSUME NEW rows, NEW i
    PROVE  \/ ~Mapped(i) /\ Persist(rows, i) = rows
           \/ /\ Mapped(i)
              /\ Persist(rows, i).counted = rows.counted + 1
              /\ \/ /\ Persist(rows, i).kept = rows.kept
                    /\ \E r \in rows.kept : \/ r.key = Key(i, rows.counted + 1)
                                            \/ r.number = rows.counted + 1
                 \/ Persist(rows, i).kept = rows.kept \cup
                       {[of |-> i, number |-> rows.counted + 1,
                         key |-> Key(i, rows.counted + 1), answers |-> AnswersIn(i)]}
<1> DEFINE n == rows.counted + 1
           row == [of |-> i, number |-> n, key |-> Key(i, n), answers |-> AnswersIn(i)]
           kept == IF \E r \in rows.kept : r.key = row.key \/ r.number = n
                   THEN rows.kept ELSE rows.kept \cup {row}
<1>1. CASE ~Mapped(i)
    BY <1>1 DEF Persist
<1>2. CASE Mapped(i)
    <2>1. Persist(rows, i) = [counted |-> n, kept |-> kept]
        BY <1>2 DEF Persist
    <2>2. Persist(rows, i).counted = n /\ Persist(rows, i).kept = kept
        BY <2>1
    <2>3. row.key = Key(i, n)
        OBVIOUS
    <2> HIDE DEF n
    <2> QED
        BY <1>2, <2>2, <2>3 DEF n
<1> QED
    BY <1>1, <1>2

LEMMA StoredIsSound ==
    ASSUME FilesInv, NEW S \in SUBSET DOMAIN taken, NEW file \in SetToSeqs(S)
    PROVE  \A r \in StoredFrom(file) : RowSound(r)
<1> DEFINE len == Len(file)
<1>1. len \in Nat /\ \A n \in 1..len : file[n] \in DOMAIN taken
    BY FileLines
<1>2. PICK g : IsRows(g, len, file) /\ StoredFrom(file) = g[len].kept
    BY <1>1, StoredIs
<1> HIDE DEF len
<1> DEFINE Good == {n \in Nat : \A r \in g[n].kept : RowSound(r)}
<1>3. 0 \in Good
    <2>1. g[0] = [counted |-> 0, kept |-> stored]
        BY <1>1, <1>2, RowsAt
    <2> QED
        BY <2>1 DEF FilesInv
<1>4. ASSUME NEW n \in 0..(len - 1), n \in Good
      PROVE  n + 1 \in Good
    <2>1. n \in Nat /\ n + 1 \in 0..len /\ n + 1 \in 1..len /\ n + 1 # 0 /\ (n + 1) - 1 = n
        BY <1>1
    <2>2. g[n + 1] = Persist(g[n], file[n + 1])
        BY <1>2, <2>1, RowsAt
    <2>3. PICK i \in DOMAIN taken : i = file[n + 1]
        BY <1>1, <2>1
    <2>4. ASSUME NEW r \in g[n + 1].kept
          PROVE  RowSound(r)
        <3>1. CASE r \in g[n].kept
            BY <1>4, <3>1
        <3>2. CASE r \notin g[n].kept
            <4>1. /\ Mapped(i)
                  /\ r = [of |-> i, number |-> g[n].counted + 1,
                          key |-> Key(i, g[n].counted + 1), answers |-> AnswersIn(i)]
                BY <2>2, <2>3, <2>4, <3>2, PersistAdds
            <4>2. r.of = i /\ r.answers = AnswersIn(i)
                BY <4>1
            <4> QED
                BY <4>1, <4>2 DEF RowSound
        <3> QED
            BY <3>1, <3>2
    <2> QED
        BY <2>1, <2>4
<1> HIDE DEF Good
<1>5. len \in Good
    BY <1>1, <1>3, <1>4, CountingUp
<1> QED
    BY <1>2, <1>5 DEF Good

\* Attempt i has its row, or another with its key.
HasRow(i, rows) ==
    \E r \in rows : \/ r.of = i
                    \/ r.key = Key(i, Number(i)) /\ r.number # Number(i)

LEMMA StoredIsWhole ==
    ASSUME FilesInv, regular, NEW file, file = [i \in DOMAIN taken |-> i]
    PROVE  /\ \A r \in StoredFrom(file) : r = RowOf(r.of)
           /\ \A i \in DOMAIN taken : Mapped(i) => HasRow(i, StoredFrom(file))
<1> DEFINE len == Len(taken)
<1>1. len \in Nat /\ DOMAIN taken = 1..len
    BY TakenIsSequence
<1> HIDE DEF len
<1>2. file = [i \in 1..len |-> i]
    BY <1>1
<1>3. Len(file) = len
    <2>1. file \in [1..len -> Nat]
        BY <1>1, <1>2
    <2>2. file \in Seq(Nat)
        BY <1>1, <2>1, SeqDef
    <2>3. Len(file) \in Nat /\ DOMAIN file = 1..Len(file)
        BY <2>2, LenProperties
    <2>4. 1..Len(file) = 1..len
        BY <1>2, <2>3
    <2> QED
        BY <1>1, <2>3, <2>4
<1>4. PICK g : IsRows(g, len, file) /\ StoredFrom(file) = g[len].kept
    BY <1>1, <1>3, StoredIs
<1> DEFINE Fits(n) == /\ g[n].counted = Number(n)
                      /\ \A r \in g[n].kept : RowSound(r) /\ r = RowOf(r.of)
                      /\ \A i \in 1..n : Mapped(i) => HasRow(i, g[n].kept)
           Good == {n \in Nat : Fits(n)}
<1>5. 0 \in Good
    <2>1. g[0] = [counted |-> 0, kept |-> stored]
        BY <1>1, <1>4, RowsAt
    <2>2. g[0].counted = 0 /\ g[0].kept = stored
        BY <2>1
    <2>3. Number(0) = 0
        BY NumberCounts
    <2>4. Fits(0)
        BY <2>2, <2>3 DEF FilesInv
    <2> QED
        BY <2>4
<1>6. ASSUME NEW n \in 0..(len - 1), n \in Good
      PROVE  n + 1 \in Good
    <2>1. n \in Nat /\ n + 1 \in 0..len /\ n + 1 \in 1..len /\ n + 1 # 0 /\ (n + 1) - 1 = n
        BY <1>1
    <2> DEFINE i == n + 1
    <2>2. g[i] = Persist(g[n], i)
        <3>1. file[i] = i
            BY <1>2, <2>1
        <3> QED
            BY <1>4, <2>1, <3>1, RowsAt
    <2>3. i \in DOMAIN taken /\ i \in Nat
        BY <1>1, <2>1
    <2>4. Fits(n)
        BY <1>6
    <2>5. /\ Number(n) \in Nat
          /\ Number(i) = IF Mapped(i) THEN Number(n) + 1 ELSE Number(n)
        BY <2>1, NumberCounts
    <2>6. \A j \in 1..i : j \in 1..n \/ j = i
        BY <2>1
    <2> HIDE DEF i, Fits
    <2>7. CASE ~Mapped(i)
        <3>1. g[i] = g[n] /\ Number(i) = Number(n)
            BY <2>2, <2>5, <2>7, PersistAdds
        <3>2. Fits(i)
            BY <2>4, <2>6, <2>7, <3>1 DEF Fits
        <3> QED
            BY <2>3, <3>2 DEF i
    <2>8. CASE Mapped(i)
        <3>1. g[n].counted + 1 = Number(i)
            BY <2>4, <2>5, <2>8 DEF Fits
        <3>2. /\ g[i].counted = Number(i)
              /\ \/ /\ g[i].kept = g[n].kept
                    /\ \E r \in g[n].kept : r.key = Key(i, Number(i)) \/ r.number = Number(i)
                 \/ g[i].kept = g[n].kept \cup {RowOf(i)}
            BY <2>2, <2>8, <3>1, PersistAdds DEF RowOf
        <3>3. ASSUME NEW r \in g[i].kept
              PROVE  RowSound(r) /\ r = RowOf(r.of)
            <4>1. CASE r \in g[n].kept
                BY <2>4, <4>1 DEF Fits
            <4>2. CASE r \notin g[n].kept
                <5>1. r = RowOf(i)
                    BY <3>2, <4>2
                <5>2. r.of = i /\ r.answers = AnswersIn(i)
                    BY <5>1 DEF RowOf
                <5> QED
                    BY <2>3, <2>8, <5>1, <5>2 DEF RowSound
            <4> QED
                BY <4>1, <4>2
        <3>4. HasRow(i, g[i].kept)
            <4>1. CASE RowOf(i) \in g[i].kept
                <5>1. RowOf(i).of = i
                    BY DEF RowOf
                <5> QED
                    BY <4>1, <5>1 DEF HasRow
            <4>2. CASE RowOf(i) \notin g[i].kept
                <5>1. PICK r \in g[i].kept : r.key = Key(i, Number(i)) \/ r.number = Number(i)
                    BY <3>2, <4>2
                <5>2. CASE r.number # Number(i)
                    BY <5>1, <5>2 DEF HasRow
                <5>3. CASE r.number = Number(i)
                    <6>1. PICK j \in DOMAIN taken : j = r.of /\ Mapped(j) /\ r = RowOf(j)
                        BY <3>3 DEF RowSound
                    <6>2. Number(j) = Number(i)
                        BY <5>3, <6>1 DEF RowOf
                    <6>3. i \in Nat /\ j \in Nat
                        BY <1>1, <2>3, <6>1
                    <6>4. ~(i < j) /\ ~(j < i)
                        BY <2>8, <6>1, <6>2, <6>3, NumbersApart
                    <6>5. j = i
                        BY <6>3, <6>4
                    <6> QED
                        BY <6>1, <6>5 DEF HasRow
                <5> QED
                    BY <5>2, <5>3
            <4> QED
                BY <4>1, <4>2
        <3>5. g[n].kept \subseteq g[i].kept
            BY <3>2
        <3>6. \A j \in 1..n : Mapped(j) => HasRow(j, g[i].kept)
            BY <2>4, <3>5 DEF Fits, HasRow
        <3>7. Fits(i)
            BY <2>6, <3>2, <3>3, <3>4, <3>6 DEF Fits
        <3> QED
            BY <2>3, <3>7 DEF i
    <2> QED
        BY <2>7, <2>8
<1> HIDE DEF Good, Fits
<1>7. \A n \in 0..(len - 1) : n \in Good => n + 1 \in Good
    BY <1>6
<1>8. len \in Good
    <2>1. len \in Nat
        BY <1>1
    <2>2. \A n \in 0..len : n \in Good
        BY <1>5, <1>7, <2>1, CountingUp
    <2> QED
        BY <2>1, <2>2
<1>9. Fits(len)
    BY <1>8 DEF Good
<1> QED
    BY <1>1, <1>4, <1>9 DEF Fits

\* One more attempt changes nothing about those before it.
LEMMA TakeKeeps == ASSUME FilesInv, Take PROVE FilesInv'
<1>1. PICK start \in Starts \cup {NoTime}, layout \in Layouts, given \in Givens :
         taken' = Append(taken, [start |-> start, layout |-> layout, given |-> given])
    BY DEF Take
<1>2. likeness' = likeness /\ stored' = stored /\ regular' = regular /\ listed' = {}
    BY DEF Take
<1>3. PICK last : last = [start |-> start, layout |-> layout, given |-> given]
    OBVIOUS
<1>4. PICK S : taken \in Seq(S)
    BY DEF FilesInv
<1>5. /\ taken' \in Seq(S \cup {last})
      /\ DOMAIN taken' = DOMAIN taken \cup {Len(taken) + 1}
      /\ taken'[Len(taken) + 1] = last
      /\ \A i \in DOMAIN taken : taken'[i] = taken[i]
    <2>1. taken \in Seq(S \cup {last}) /\ taken' = Append(taken, last)
        BY <1>1, <1>3, <1>4
    <2> QED
        BY <1>4, <2>1
<1>6. \A i \in DOMAIN taken' : taken'[i].layout \in Layouts
    <2>1. last.layout = layout
        BY <1>3
    <2> QED
        BY <1>1, <1>5, <2>1 DEF FilesInv
<1>7. ASSUME NEW i \in DOMAIN taken
      PROVE  /\ Mapped(i)' = Mapped(i) /\ AnswersIn(i)' = AnswersIn(i)
             /\ RowOf(i)' = RowOf(i)
    <2>1. i \in Nat /\ \A j \in 1..i : j \in DOMAIN taken
        BY TakenIsSequence
    <2>2. Number(i)' = Number(i)
        BY <1>2, <1>5, <2>1, SameNumber
    <2>3. /\ Mapped(i)' = Mapped(i) /\ AnswersIn(i)' = AnswersIn(i)
          /\ \A n : Key(i, n)' = Key(i, n)
        BY <1>2, <1>5, SameAttempt
    <2> QED
        BY <2>2, <2>3 DEF RowOf
<1>8. \A r \in stored' : RowSound(r)'
    BY <1>2, <1>5, <1>7 DEF FilesInv, RowSound
<1>9. regular' => \A r \in stored' : r = RowOf(r.of)'
    BY <1>2, <1>7 DEF FilesInv, RowSound
<1>10. AttemptsFiledOnce'
    <2>1. ToldApart' = ToldApart
        BY <1>2 DEF ToldApart, Stems
    <2> QED
        BY <1>2, <2>1 DEF FilesInv, AttemptsFiledOnce
<1>11. \E T : taken' \in Seq(T)
    BY <1>5
<1> QED
    BY <1>2, <1>6, <1>8, <1>9, <1>10, <1>11 DEF FilesInv, Stems, Degrees

LEMMA ImportFileKeeps ==
    ASSUME FilesInv, NEW S \in SUBSET DOMAIN taken, NEW file \in SetToSeqs(S),
           ImportFile(file)
    PROVE  FilesInv'
<1>1. /\ stored' = StoredFrom(file)
      /\ regular' = (regular /\ file = [i \in DOMAIN taken |-> i])
      /\ listed' = {i \in ToSet(file) : Mapped(i)}
      /\ likeness' = likeness /\ taken' = taken
    BY DEF ImportFile
<1>2. ASSUME NEW i \in DOMAIN taken
      PROVE  /\ Mapped(i)' = Mapped(i) /\ AnswersIn(i)' = AnswersIn(i)
             /\ RowOf(i)' = RowOf(i)
             /\ \A n : Key(i, n)' = Key(i, n)
    <2>1. i \in Nat
        BY TakenIsSequence
    <2>2. Number(i)' = Number(i)
        BY <1>1, <2>1, SameNumber
    <2>3. /\ Mapped(i)' = Mapped(i) /\ AnswersIn(i)' = AnswersIn(i)
          /\ \A n : Key(i, n)' = Key(i, n)
        BY <1>1, SameAttempt
    <2> QED
        BY <2>2, <2>3 DEF RowOf
<1>3. \A r \in StoredFrom(file) : RowSound(r)
    BY StoredIsSound
<1>4. \A r \in stored' : RowSound(r)'
    BY <1>1, <1>2, <1>3 DEF RowSound
<1>5. ASSUME regular'
      PROVE  /\ file = [i \in DOMAIN taken |-> i]
             /\ \A r \in StoredFrom(file) : r = RowOf(r.of)
             /\ \A i \in DOMAIN taken : Mapped(i) => HasRow(i, StoredFrom(file))
    BY <1>1, <1>5, StoredIsWhole
<1>6. regular' => \A r \in stored' : r = RowOf(r.of)'
    BY <1>1, <1>2, <1>3, <1>5 DEF RowSound
<1>7. ASSUME ToldApart', NEW r \in stored', NEW c \in DOMAIN r.answers
      PROVE  r.answers[c].to = Origin[r.answers[c].from]
    <2>1. ToldApart
        BY <1>1, <1>7 DEF ToldApart, Stems
    <2>2. PICK i \in DOMAIN taken : Mapped(i) /\ r.answers = AnswersIn(i)
        BY <1>1, <1>3, <1>7 DEF RowSound
    <2> QED
        BY <1>7, <2>1, <2>2, AnswersRight
<1>8. ASSUME regular', NEW i \in listed'
      PROVE  \/ Cardinality({r \in stored' : r.of = i}) = 1
             \/ \E j \in listed' \ {i} :
                   /\ taken[i].start = NoTime /\ taken[j].start = NoTime
                   /\ \E r \in stored' : r.of = j /\ r.key = Key(i, 0)
    <2>1. listed' = {j \in DOMAIN taken : Mapped(j)}
        <3>1. ToSet(file) = DOMAIN taken
            BY <1>5, <1>8 DEF ToSet
        <3> QED
            BY <1>1, <3>1
    <2>2. i \in DOMAIN taken /\ Mapped(i)
        BY <1>8, <2>1
    <2>3. PICK r \in stored' : \/ r.of = i
                               \/ r.key = Key(i, Number(i)) /\ r.number # Number(i)
        BY <1>1, <1>5, <1>8, <2>2 DEF HasRow
    <2>4. \A q \in stored' : q = RowOf(q.of)
        BY <1>1, <1>5, <1>8
    <2>5. CASE r.of = i
        <3>1. {q \in stored' : q.of = i} = {RowOf(i)}
            BY <2>3, <2>4, <2>5
        <3> QED
            BY <3>1, FS_Singleton
    <2>6. CASE r.of # i /\ r.key = Key(i, Number(i)) /\ r.number # Number(i)
        <3>1. PICK j \in DOMAIN taken : j = r.of /\ Mapped(j)
            BY <1>1, <1>3, <2>3 DEF RowSound
        <3>2. r.key = Key(j, Number(j)) /\ r.number = Number(j)
            <4>1. r = RowOf(j)
                BY <2>4, <3>1
            <4> QED
                BY <4>1 DEF RowOf
        <3>3. /\ taken[j].start = NoTime /\ taken[i].start = NoTime
              /\ Key(i, Number(i)) = Key(i, 0)
            <4>1. Key(j, Number(j)) = Key(i, Number(i)) /\ Number(j) # Number(i)
                BY <2>6, <3>2
            <4> QED
                BY <4>1, KeysAgree, Zenon
        <3>4. j \in listed' \ {i}
            BY <2>1, <2>6, <3>1
        <3> QED
            BY <2>3, <2>6, <3>1, <3>3, <3>4
    <2> QED
        BY <2>3, <2>5, <2>6
<1>9. AttemptsFiledOnce'
    <2>1. ASSUME regular', NEW i \in listed'
          PROVE  \/ Cardinality({r \in stored' : r.of = i}) = 1
                 \/ \E j \in listed' \ {i} :
                       /\ taken'[i].start = NoTime /\ taken'[j].start = NoTime
                       /\ \E r \in stored' : r.of = j /\ r.key = Key(i, 0)'
        <3>1. i \in DOMAIN taken
            BY <1>1, <1>5, <2>1 DEF ToSet
        <3>2. Key(i, 0)' = Key(i, 0)
            BY <1>2, <3>1
        <3> QED
            BY <1>1, <1>8, <2>1, <3>2
    <2> QED
        BY <1>7, <2>1 DEF AttemptsFiledOnce
<1> QED
    BY <1>1, <1>4, <1>6, <1>9 DEF FilesInv, Stems, Degrees, Layouts

LEMMA FilesStart == FilesInit => FilesInv
<1> SUFFICES ASSUME FilesInit PROVE FilesInv
    OBVIOUS
<1>1. likeness \in [Texts \X Stems -> Degrees]
    BY ResultFilesAssumption DEF FilesInit
<1>2. taken = <<>> /\ stored = {} /\ listed = {}
    BY DEF FilesInit
<1>3. taken \in Seq({}) /\ DOMAIN taken = {}
    BY <1>2
<1>4. \E S : taken \in Seq(S)
    BY <1>3
<1>5. AttemptsFiledOnce
    BY <1>2 DEF AttemptsFiledOnce
<1> QED
    BY <1>1, <1>2, <1>3, <1>4, <1>5 DEF FilesInv

LEMMA FilesStep == FilesInv /\ [FilesNext]_fileVars => FilesInv'
<1> SUFFICES ASSUME FilesInv, [FilesNext]_fileVars PROVE FilesInv'
    OBVIOUS
<1>1. CASE UNCHANGED fileVars
    <2>1. /\ likeness' = likeness /\ taken' = taken /\ stored' = stored
          /\ regular' = regular /\ listed' = listed
        BY <1>1 DEF fileVars
    <2>2. ASSUME NEW i \in DOMAIN taken
          PROVE  /\ Mapped(i)' = Mapped(i) /\ AnswersIn(i)' = AnswersIn(i)
                 /\ RowOf(i)' = RowOf(i)
        <3>1. i \in Nat
            BY TakenIsSequence
        <3>2. Number(i)' = Number(i)
            BY <2>1, <3>1, SameNumber
        <3> QED
            BY <2>1, <3>2, SameAttempt DEF RowOf
    <2>3. \A r \in stored' : RowSound(r)'
        BY <2>1, <2>2 DEF FilesInv, RowSound
    <2>4. regular' => \A r \in stored' : r = RowOf(r.of)'
        BY <2>1, <2>2 DEF FilesInv, RowSound
    <2>5. AttemptsFiledOnce'
        <3>1. ToldApart' = ToldApart
            BY <2>1 DEF ToldApart, Stems
        <3>2. \A i : Key(i, 0)' = Key(i, 0)
            BY <2>1, SameAttempt
        <3> QED
            BY <2>1, <3>1, <3>2 DEF FilesInv, AttemptsFiledOnce
    <2> QED
        BY <2>1, <2>3, <2>4, <2>5 DEF FilesInv, Stems, Degrees, Layouts
<1>2. CASE FilesNext
    BY <1>2, TakeKeeps, ImportFileKeeps DEF FilesNext
<1> QED
    BY <1>1, <1>2

\* Results find their way back.  Through Moodle's web services, answers at a quiz
\* that was synchronized with the exam it was made from are filed under the
\* questions the students saw, however the exam is edited while Moodle is asked or later,
\* unless two synchronizations crossed (moodle_roundtrip.py, moodle_api_driver.py); from files, answers are stored
\* with the question they were given to and every attempt with a mapping once
\* (moodle_json_driver.py, import_service.py): for any number of questions,
\* quizzes, attempts and files.
THEOREM ResultsFindTheirWay == RoundSpec /\ FilesSpec => []ResultsFiled
<1>1. RoundInv => AnswersFindTheirQuestion
    BY DEF RoundInv
<1>2. RoundSpec => []AnswersFindTheirQuestion
    BY <1>1, RoundStarts, RoundStep, PTL DEF RoundSpec
<1>3. FilesInv => AttemptsFiledOnce
    BY DEF FilesInv
<1>4. FilesSpec => []AttemptsFiledOnce
    BY <1>3, FilesStart, FilesStep, PTL DEF FilesSpec
<1> QED
    BY <1>2, <1>4, PTL DEF ResultsFiled
=============================================================================
