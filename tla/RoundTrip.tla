----------------------------- MODULE RoundTrip ------------------------------
(***************************************************************************)
(* The round trip of an exam through Moodle.  The exporter writes the      *)
(* questions in the order of their positions and leaves out those nobody   *)
(* could score (backend/services/exam_export_service.py); Moodle numbers   *)
(* what it gets as slots and gives each question an id of its own.         *)
(* POST sync-moodle-question-ids (backend/api/moodle_roundtrip.py) records *)
(* slots, and ids if the teacher lists them, in external_refs; it loads the*)
(* rows, asks Moodle for the quiz, and writes what it has loaded.  The driver*)
(* for Moodle's web services (import_drivers/moodle_api_driver.py) uses    *)
(* them to tell which question an answer belongs to.                       *)
(*                                                                         *)
(* Between these steps, and while a synchronization waits for Moodle, the  *)
(* exam may change (backend/api/exams.py): an exported exam can be turned  *)
(* into a draft again.                                                     *)
(***************************************************************************)
EXTENDS Integers, Sequences, FiniteSets, SequencesExt, Functions

CONSTANTS
    Candidates,       \* questions that may become rows of the exam
    Unscorable,  \* those the exporter skips
    Unset,       \* no value in external_refs, or no question
    Syncs,       \* requests to synchronize that may wait at the same time
    MaxQuizzes,  \* bound on quizzes made from the exam
    MaxEdits     \* bound on changes of the exam

ASSUME RoundTripAssumption ==
    IsFiniteSet(Candidates) /\ Unscorable \subseteq Candidates /\ Unset \notin Candidates \cup Nat

VARIABLES
    position,    \* of the rows of the exam; Unset: no row
    refs,        \* external_refs of the rows
    quizzes,     \* the quizzes in Moodle: the questions in their slots
    sync,        \* the requests to synchronize that wait for Moodle, and what they
                 \* have loaded
    gone,        \* [Syncs -> rows they have loaded that were removed since]
    crossed,     \* waiting requests that another one has overtaken (history)
    faithful,    \* the quiz that was synchronized last, if the exam had the same
                 \* questions in the same order and no request crossed (history)
    filed,       \* where the last step put answers (history)
    edits

syncVars == <<sync, gone, crossed>>
roundVars == <<position, refs, quizzes, syncVars, faithful, filed, edits>>

-----------------------------------------------------------------------------
NoRefs == [slot |-> Unset, quiz |-> Unset, id |-> Unset]

Placed == {q \in Candidates : position[q] # Unset}

\* exam.questions in the order of their positions.
Paper == CHOOSE order \in SetToSeqs(Placed) :
             \A i, j \in DOMAIN order : i < j => position[order[i]] < position[order[j]]

RoundInit ==
    /\ position \in {f \in [Candidates -> (1..Cardinality(Candidates)) \cup {Unset}] :
                        {f[q] : q \in Candidates} \ {Unset} = 1..Cardinality({q \in Candidates : f[q] # Unset})
                        /\ \A p, q \in Candidates : f[p] = f[q] => p = q \/ f[p] = Unset}
    /\ refs = [q \in Candidates |-> NoRefs]
    /\ sync = [w \in {} |-> <<>>] /\ gone = [w \in Syncs |-> {}] /\ crossed = {}
    /\ quizzes = <<>> /\ faithful = {} /\ filed = {} /\ edits = 0

-----------------------------------------------------------------------------
(***************************************************************************)
(* The exam changes: a row is added behind the others, removed, or all are *)
(* numbered anew.  A removed question that returns is a new row.           *)
(***************************************************************************)
Edit ==
    /\ edits < MaxEdits
    /\ edits' = edits + 1
    /\ filed' = {}
    /\ UNCHANGED <<quizzes, sync, crossed, faithful>>

AddRow(q) ==
    /\ q \notin Placed
    /\ position' = [position EXCEPT ![q] = 1 + Max({0} \cup {position[p] : p \in Placed})]
    /\ UNCHANGED <<refs, gone>>
    /\ Edit

RemoveRow(q) ==
    /\ q \in Placed
    /\ position' = [position EXCEPT ![q] = Unset]
    /\ refs' = [refs EXCEPT ![q] = NoRefs]
    /\ gone' = [w \in Syncs |-> IF w \in DOMAIN sync THEN gone[w] \cup {q} ELSE gone[w]]
    /\ Edit

ReorderRows(order) ==
    /\ position' = [q \in Candidates |-> IF q \in Placed
                                    THEN CHOOSE i \in DOMAIN order : order[i] = q ELSE Unset]
    /\ UNCHANGED <<refs, gone>>
    /\ Edit

-----------------------------------------------------------------------------
\* MoodleXmlExporter, and the import of the file in Moodle: slots 1..n.
Export ==
    /\ Len(quizzes) < MaxQuizzes
    /\ Placed \ Unscorable # {}
    /\ quizzes' = Append(quizzes, SelectSeq(Paper, LAMBDA q : q \notin Unscorable))
    /\ filed' = {}
    /\ UNCHANGED <<position, refs, syncVars, faithful, edits>>

\* Moodle's id for what is in slot s of quiz k.
MoodleId(k, s) == <<k, s>>

\* The rows are loaded; only the number of the ids is compared with them.
SyncBegins(w, k, withIds) ==
    /\ w \notin DOMAIN sync /\ Placed # {}
    /\ withIds => Len(quizzes[k]) = Len(Paper)
    /\ sync' = [v \in DOMAIN sync \cup {w} |->
                   IF v = w THEN [quiz |-> k, ids |-> withIds, order |-> Paper, had |-> refs]
                   ELSE sync[v]]
    /\ filed' = {}
    /\ UNCHANGED <<position, refs, quizzes, gone, crossed, faithful, edits>>

Loaded(w) == {sync[w].order[i] : i \in DOMAIN sync[w].order}

\* What the request writes to a row: slots from the order it has loaded.
Recorded(w, q) ==
    LET i == CHOOSE i \in DOMAIN sync[w].order : sync[w].order[i] = q
    IN  [slot |-> i, quiz |-> sync[w].quiz,
         id |-> IF sync[w].ids THEN MoodleId(sync[w].quiz, i) ELSE sync[w].had[q].id]

\* A value that is as it was loaded is not written.
Dirty(w) == {q \in Loaded(w) : Recorded(w, q) # sync[w].had[q]}

Ends(w) ==
    /\ sync' = Restrict(sync, DOMAIN sync \ {w})
    /\ gone' = [gone EXCEPT ![w] = {}]
    /\ filed' = {}
    /\ UNCHANGED <<position, quizzes, edits>>

\* A row to be written that is gone makes the commit fail.
SyncCommits(w) ==
    /\ w \in DOMAIN sync /\ Dirty(w) \cap gone[w] = {}
    /\ refs' = [q \in Candidates |-> IF q \in Dirty(w) THEN Recorded(w, q) ELSE refs[q]]
    /\ faithful' = IF quizzes[sync[w].quiz] = sync[w].order /\ w \notin crossed
                   THEN {sync[w].quiz} ELSE {}
    /\ crossed' = DOMAIN sync \ {w}
    /\ Ends(w)

\* So does Moodle, when it does not show the quiz.
SyncFails(w) ==
    /\ w \in DOMAIN sync
    /\ crossed' = crossed \ {w}
    /\ UNCHANGED <<refs, faithful>>
    /\ Ends(w)

-----------------------------------------------------------------------------
\* _build_question_lookup.
BySlot(s) == {q \in Placed : refs[q].slot = s}
ById(i) == {q \in Placed : refs[q].id = i}
ByPosition(n) == {q \in Placed : position[q] = n}

\* _resolve_question_id: the first of the three that knows the answer.
ResolveMutant(s, i) ==
    CASE ByPosition(s) # {} -> CHOOSE q \in ByPosition(s) : TRUE
      [] BySlot(s) # {} -> CHOOSE q \in BySlot(s) : TRUE
      [] OTHER -> Unset
Resolve(s, i) ==
    CASE BySlot(s) # {} -> CHOOSE q \in BySlot(s) : TRUE
      [] BySlot(s) = {} /\ ById(i) # {} -> CHOOSE q \in ById(i) : TRUE
      [] BySlot(s) = {} /\ ById(i) = {} /\ ByPosition(s) # {} ->
             CHOOSE q \in ByPosition(s) : TRUE
      [] OTHER -> Unset

\* _process_attempt: the answers of an attempt at quiz k that have a question.
AnswersOf(k) ==
    {[quiz |-> k, slot |-> s, given |-> quizzes[k][s], to |-> Resolve(s, MoodleId(k, s))] :
        s \in {t \in DOMAIN quizzes[k] : Resolve(t, MoodleId(k, t)) # Unset}}

\* The references are read once, before Moodle is asked for the attempts.  Two
\* answers to one question are refused by the database, and nothing is stored.
Import(k) ==
    /\ \A x, y \in AnswersOf(k) : x.to = y.to => x = y
    /\ filed' = AnswersOf(k)
    /\ UNCHANGED <<position, refs, quizzes, syncVars, faithful, edits>>

-----------------------------------------------------------------------------
RoundNext ==
    \/ \E q \in Candidates : AddRow(q) \/ RemoveRow(q)
    \/ \E order \in SetToSeqs(Placed) : ReorderRows(order)
    \/ Export
    \/ \E k \in DOMAIN quizzes :
          \/ \E w \in Syncs, withIds \in BOOLEAN : SyncBegins(w, k, withIds)
          \/ Import(k)
    \/ \E w \in Syncs : SyncCommits(w) \/ SyncFails(w)

RoundSpec == RoundInit /\ [][RoundNext]_roundVars

-----------------------------------------------------------------------------
\* Once a quiz has been synchronized with the exam it was made from, and no other
\* synchronization was under way at the same time, whatever rows were added,
\* removed or reordered while Moodle was asked or are later: its answers to
\* questions of the exam that were there then are filed under the questions the
\* students saw.
AnswersFindTheirQuestion ==
    \A a \in filed : a.quiz \in faithful /\ a.given \in Placed /\ refs[a.given].quiz = a.quiz
                        => a.to = a.given

\* What is not so (README, section 4): that no two rows have one slot, after two
\* synchronizations that crossed; and "fall back to position only when no
\* external_refs have been recorded yet" (moodle_api_driver.py,
\* _resolve_question_id).
OneRowPerSlot ==
    \A p, q \in Placed : refs[p].slot = refs[q].slot => p = q \/ refs[p] = NoRefs
PositionOnlyWithoutRefs ==
    \A k \in DOMAIN quizzes : \A s \in DOMAIN quizzes[k] :
        BySlot(s) = {} /\ ById(MoodleId(k, s)) = {} /\ (\E q \in Placed : refs[q] # NoRefs)
            => Resolve(s, MoodleId(k, s)) = Unset

=============================================================================
