---------------------------- MODULE ResultFiles -----------------------------
(***************************************************************************)
(* Results that come as files: the JSON a Moodle report writes             *)
(* (backend/services/import_drivers/moodle_json_driver.py) and how its     *)
(* attempts are stored (backend/services/import_service.py), file after    *)
(* file, for one student.  Which question an answer belongs to is decided  *)
(* by its text; whether an attempt is known, by a key.                     *)
(*                                                                         *)
(* How much a text looks like a question is a member of Degrees; what is   *)
(* stripped and folded before the comparison is left out.  Grading, and    *)
(* imports that run at the same time, are in ImportJob.  The other way     *)
(* back, through Moodle's web services, is RoundTrip.                      *)
(***************************************************************************)
EXTENDS RoundTrip

CONSTANTS
    Texts,       \* the texts of the exam's questions as Moodle renders them
    Origin,      \* [Texts -> questions of the exam]
    Likenesses,  \* set of functions [Texts \X questions -> Degrees]
    Starts,      \* times an attempt may have begun
    NoTime,      \* the file does not say
    Givens,      \* contents of answers
    Unmatched,   \* no question, or no mapping
    MaxTaken     \* bound on the student's attempts

Stems == {Origin[t] : t \in Texts}

\* Below 85 % of common words; two shares above, the second larger; one
\* contains the other; equal.
Degrees == 0..4
Far == 0

ASSUME ResultFilesAssumption ==
    /\ IsFiniteSet(Texts) /\ NoTime \notin Starts
    /\ Likenesses \subseteq [Texts \X Stems -> Degrees]

VARIABLES
    likeness,
    taken,       \* the attempts in Moodle, in order
    stored,      \* the rows of attempts with their answers
    regular,     \* every file so far listed all attempts, in order (history)
    listed       \* the attempts of the last file that have a mapping (history)

fileVars == <<likeness, taken, stored, regular, listed>>

-----------------------------------------------------------------------------
Likest(t) == Max({likeness[<<t, q>>] : q \in Stems})
Lookalikes(t) == {q \in Stems : likeness[<<t, q>>] = Likest(t)}

\* _match_question_id: the best rung on which there are candidates decides,
\* and decides nothing if there are two.
Match(t) ==
    IF Likest(t) # Far /\ Cardinality(Lookalikes(t)) = 1
    THEN CHOOSE q \in Lookalikes(t) : TRUE
    ELSE Unmatched

\* A row's layout is the text in each of its columns.  _resolve_column_map:
\* every column has a question, and no two the same.
ColumnMap(layout) ==
    LET at == [c \in DOMAIN layout |-> Match(layout[c])]
    IN  IF layout # <<>> /\ Unmatched \notin {at[c] : c \in DOMAIN at} /\ IsInjective(at)
        THEN at ELSE Unmatched

-----------------------------------------------------------------------------
\* All questions in some order, or none.
Layouts == {<<>>} \cup SetToSeqs(Texts)

FilesInit ==
    /\ likeness \in Likenesses
    /\ taken = <<>> /\ stored = {} /\ regular = TRUE /\ listed = {}

\* The student takes the exam once more; the questions may be shuffled, or the
\* report may lack them.
Take ==
    /\ Len(taken) < MaxTaken
    /\ \E start \in Starts \cup {NoTime}, layout \in Layouts, given \in Givens :
          taken' = Append(taken, [start |-> start, layout |-> layout, given |-> given])
    /\ listed' = {}
    /\ UNCHANGED <<likeness, stored, regular>>

\* The answers of attempt i by column; all columns have the same content.
AnswersIn(i) ==
    LET at == ColumnMap(taken[i].layout)
    IN  [c \in DOMAIN at |-> [to |-> at[c], from |-> taken[i].layout[c],
                              given |-> taken[i].given]]

\* _compose_source_attempt_id, for the n-th row of the student.
Key(i, n) ==
    IF taken[i].start # NoTime THEN <<"begun", taken[i].start, n>>
    ELSE <<"answers", [c \in DOMAIN AnswersIn(i) |-> <<AnswersIn(i)[c].to, AnswersIn(i)[c].given>>]>>

Mapped(i) == ColumnMap(taken[i].layout) # Unmatched

\* _persist_attempts: known keys are skipped, and so is what the unique
\* constraints refuse.  A row that has no mapping is not counted.
Persist(rows, i) ==
    LET n == rows.counted + 1
        row == [of |-> i, number |-> n, key |-> Key(i, n), answers |-> AnswersIn(i)]
    IN  IF ~Mapped(i) THEN rows
        ELSE [counted |-> n,
              kept |-> IF \E r \in rows.kept : r.key = row.key \/ r.number = n
                       THEN rows.kept ELSE rows.kept \cup {row}]

\* The rows of attempts after the rows of a file, one by one.
StoredFrom(file) ==
    LET rows[n \in 0..Len(file)] ==
            IF n = 0 THEN [counted |-> 0, kept |-> stored]
            ELSE Persist(rows[n - 1], file[n])
    IN  rows[Len(file)].kept

\* parse and run.  The first row with questions must be mapped; later ones
\* that cannot be are reported.
ImportFile(file) ==
    /\ \E n \in DOMAIN file :
          Mapped(file[n]) /\ \A m \in 1..(n - 1) : taken[file[m]].layout = <<>>
    /\ stored' = StoredFrom(file)
    /\ regular' = (regular /\ file = [i \in DOMAIN taken |-> i])
    /\ listed' = {i \in ToSet(file) : Mapped(i)}
    /\ UNCHANGED <<likeness, taken>>

FilesNext ==
    \/ Take
    \/ \E S \in SUBSET DOMAIN taken : \E file \in SetToSeqs(S) : ImportFile(file)

FilesSpec == FilesInit /\ [][FilesNext]_fileVars

-----------------------------------------------------------------------------
\* No question looks more like a text than the one it was made from.
ToldApart ==
    \A t \in Texts, q \in Stems : likeness[<<t, q>>] <= likeness[<<t, Origin[t]>>]

\* No answer is stored with another question than the one it was given to, and
\* as long as every file lists all attempts in the order they were taken, each
\* that can be mapped is stored once - but for attempts without a time and with
\* the same answers, of which one is kept.
AttemptsFiledOnce ==
    /\ ToldApart => \A r \in stored : \A c \in DOMAIN r.answers :
                       r.answers[c].to = Origin[r.answers[c].from]
    /\ regular => \A i \in listed :
          \/ Cardinality({r \in stored : r.of = i}) = 1
          \/ \E j \in listed \ {i} :
                taken[i].start = NoTime /\ taken[j].start = NoTime
                /\ \E r \in stored : r.of = j /\ r.key = Key(i, 0)

\* A new attempt is not skipped as a duplicate (moodle_json_driver.py,
\* _compose_source_attempt_id).  TLC refutes it (README, section 4).
NewAttemptStored ==
    \A i \in listed :
        \/ \E r \in stored : r.of = i
        \/ \E j \in listed \ {i} : Key(i, 0) = Key(j, 0)

\* Results find their way back: through Moodle's web services (RoundTrip), and
\* from the files it writes.
ResultsFiled == AnswersFindTheirQuestion /\ AttemptsFiledOnce

=============================================================================
