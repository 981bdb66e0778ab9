------------------------------ MODULE Reports -------------------------------
(***************************************************************************)
(* Grading schemes (backend/api/grading_schemes.py), which one an exam is  *)
(* graded by (api/exams.py, api/admin.py, services/                        *)
(* grading_scheme_resolver.py), and what the statistics (services/         *)
(* statistics_service.py) and the grade export (api/grade_export.py) make  *)
(* of results with it.                                                     *)
(*                                                                         *)
(* A handler checks what it has read and commits later; the database       *)
(* rejects a reference to a scheme that is gone, the removal of one that   *)
(* is referred to and a second default of an institution.                  *)
(***************************************************************************)
EXTENDS Integers, FiniteSets

CONSTANTS
    Schools,      \* institutions
    System,       \* owner of the schemes everybody may use
    SchemeRows,
    NoScheme,
    Deleted,      \* a row that is gone; its number is not given again
    Scales,       \* configurations: [stepped, pass], pass = percentages that pass
    Papers,       \* exams
    NoPaper,
    Threshold,    \* passing_percentage of every exam
    Percents,
    Pupils,
    PupilSchool,  \* [Pupils -> Schools]
    Requests,     \* requests served at one time
    NoTask

SchemeRecords == [owner : Schools \cup {System}, scale : Scales, flagged : BOOLEAN]
PaperRecords == [school : Schools, scheme : SchemeRows \cup {NoScheme},
                 draft : BOOLEAN, moved : BOOLEAN, lent : BOOLEAN]

ASSUME ReportsAssumption ==
    /\ System \notin Schools /\ PupilSchool \in [Pupils -> Schools]
    /\ NoScheme # Deleted /\ NoScheme \notin SchemeRows \cup BOOLEAN
    /\ SchemeRecords \cap {NoScheme, Deleted} = {} /\ NoPaper \notin PaperRecords
    /\ \A s \in Scales : s.stepped \in BOOLEAN /\ s.pass \subseteq Percents

VARIABLES
    gradingScheme,  \* [SchemeRows -> [owner, scale, flagged], NoScheme or Deleted]
    schoolDefault,  \* [Schools -> default_grading_scheme_id]
    paper,          \* [Papers -> [school, scheme, draft, moved, lent] or NoPaper]
    result,         \* [Papers -> [those with a result -> [percent, reviewed]]]
    members,        \* pupils in the class of their school
    task            \* [Requests -> the request, and what it has read]

reportVars == <<gradingScheme, schoolDefault, paper, result, members, task>>

-----------------------------------------------------------------------------
ReportsInit ==
    /\ \E S \in SUBSET SchemeRows, s \in Scales :
          gradingScheme = [g \in SchemeRows |-> IF g \in S
                           THEN [owner |-> System, scale |-> s, flagged |-> FALSE]
                           ELSE NoScheme]
    /\ schoolDefault = [c \in Schools |-> NoScheme]
    /\ paper = [x \in Papers |-> NoPaper]
    /\ result = [x \in Papers |-> [p \in {} |-> 0]]
    /\ members = {}
    /\ task = [w \in Requests |-> NoTask]

Exists(g) == gradingScheme[g] \notin {NoScheme, Deleted}
OwnedBy(c) == {g \in SchemeRows : Exists(g) /\ gradingScheme[g].owner = c}
Flagged(c) == {g \in OwnedBy(c) : gradingScheme[g].flagged}
Sat == {x \in Papers : paper[x] # NoPaper}
Used(g) == \/ \E x \in Sat : paper[x].scheme = g
           \/ \E c \in Schools : schoolDefault[c] = g

Ask(w, what) == task[w] = NoTask /\ task' = [task EXCEPT ![w] = what]
Answered(w) == task' = [task EXCEPT ![w] = NoTask]
Asked(w, kind) == task[w] # NoTask /\ task[w].kind = kind
Unless(failure, names, change) ==
    IF failure THEN UNCHANGED names ELSE change

-----------------------------------------------------------------------------
(***************************************************************************)
(* create, update and delete of a scheme, by its own institution           *)
(***************************************************************************)
\* flag: what the request says of is_default_for_institution, if anything.
BeginSave(w, c, g) ==
    /\ g \in OwnedBy(c) \/ gradingScheme[g] = NoScheme
    /\ \E scale \in Scales, flag \in BOOLEAN \cup {NoScheme} :
          Ask(w, [kind |-> "save", scheme |-> g, school |-> c, scale |-> scale,
                  flag |-> IF ~Exists(g) /\ flag = NoScheme THEN FALSE ELSE flag,
                  new |-> ~Exists(g), demoted |-> Flagged(c) \ {g}])
    /\ UNCHANGED <<gradingScheme, schoolDefault, paper, result, members>>

SaveConflict(w) ==
    LET t == task[w] IN
    \/ IF t.new THEN gradingScheme[t.scheme] # NoScheme ELSE ~Exists(t.scheme)
    \/ t.flag = TRUE /\ t.demoted # Flagged(t.school) \ {t.scheme}

CommitSave(w) ==
    LET t == task[w] IN
    /\ Asked(w, "save") /\ Answered(w)
    /\ Unless(SaveConflict(w), gradingScheme,
          gradingScheme' = [g \in SchemeRows |->
             IF g = t.scheme
             THEN [owner |-> t.school, scale |-> t.scale,
                   flagged |-> IF t.flag = NoScheme THEN gradingScheme[g].flagged ELSE t.flag]
             ELSE IF t.flag = TRUE /\ g \in t.demoted
             THEN [gradingScheme[g] EXCEPT !.flagged = FALSE]
             ELSE gradingScheme[g]])
    /\ UNCHANGED <<schoolDefault, paper, result, members>>

BeginDelete(w, g) ==
    /\ Exists(g) /\ gradingScheme[g].owner # System /\ ~Used(g)
    /\ Ask(w, [kind |-> "delete", scheme |-> g])
    /\ UNCHANGED <<gradingScheme, schoolDefault, paper, result, members>>

CommitDelete(w) ==
    /\ Asked(w, "delete") /\ Answered(w)
    /\ Unless(Used(task[w].scheme), gradingScheme,
          gradingScheme' = [gradingScheme EXCEPT ![task[w].scheme] = Deleted])
    /\ UNCHANGED <<schoolDefault, paper, result, members>>

-----------------------------------------------------------------------------
(***************************************************************************)
(* Which scheme an exam and an institution use                             *)
(***************************************************************************)
\* _resolve_grading_scheme_id and _validate_default_grading_scheme_id
AttachableMutant(g, c) == Exists(g)
Attachable(g, c) == Exists(g) /\ gradingScheme[g].owner \in {System, c}

\* The caller's institution counts; a superuser's is not always the exam's.
BeginAttach(w, x, g, c) ==
    /\ x \in Sat
    /\ g # NoScheme => Attachable(g, c)
    /\ Ask(w, [kind |-> "attach", paper |-> x, scheme |-> g, school |-> c])
    /\ UNCHANGED <<gradingScheme, schoolDefault, paper, result, members>>

\* A new exam names a scheme or takes over the default of its institution.
BeginCreate(w, x, g, c) ==
    /\ x \notin Sat
    /\ g # NoScheme => Attachable(g, c)
    /\ Ask(w, [kind |-> "create", paper |-> x, school |-> c,
               scheme |-> IF g = NoScheme THEN schoolDefault[c] ELSE g])
    /\ UNCHANGED <<gradingScheme, schoolDefault, paper, result, members>>

Dangling(g) == g # NoScheme /\ ~Exists(g)
Foreign(g, c) == g # NoScheme /\ Exists(g) /\ gradingScheme[g].owner \notin {System, c}

CommitAttach(w) ==
    LET t == task[w] IN
    /\ Asked(w, "attach") /\ Answered(w)
    /\ Unless(Dangling(t.scheme), paper,
          paper' = [paper EXCEPT ![t.paper] = [@ EXCEPT !.scheme = t.scheme,
                       !.lent = t.school # paper[t.paper].school]])
    /\ UNCHANGED <<gradingScheme, schoolDefault, result, members>>

CommitCreate(w) ==
    LET t == task[w] IN
    /\ Asked(w, "create") /\ Answered(w)
    /\ Unless(Dangling(t.scheme) \/ t.paper \in Sat, paper,
          paper' = [paper EXCEPT ![t.paper] =
             [school |-> t.school, scheme |-> t.scheme, draft |-> TRUE,
              moved |-> FALSE, lent |-> FALSE]])
    /\ UNCHANGED <<gradingScheme, schoolDefault, result, members>>

BeginDefault(w, c, g) ==
    /\ g # NoScheme => Attachable(g, c)
    /\ Ask(w, [kind |-> "default", scheme |-> g, school |-> c])
    /\ UNCHANGED <<gradingScheme, schoolDefault, paper, result, members>>

CommitDefault(w) ==
    LET t == task[w] IN
    /\ Asked(w, "default") /\ Answered(w)
    /\ Unless(Dangling(t.scheme), schoolDefault,
          schoolDefault' = [schoolDefault EXCEPT ![t.school] = t.scheme])
    /\ UNCHANGED <<gradingScheme, paper, result, members>>

-----------------------------------------------------------------------------
(***************************************************************************)
(* The exam's life outside, in single steps                                *)
(***************************************************************************)
Finalize(x) ==
    /\ x \in Sat /\ paper' = [paper EXCEPT ![x].draft = ~@]
    /\ UNCHANGED <<gradingScheme, schoolDefault, result, members, task>>

\* The creator moves to another institution and takes the exam along.
MovePaper(x, c) ==
    /\ x \in Sat /\ c # paper[x].school
    /\ paper' = [paper EXCEPT ![x] = [@ EXCEPT !.school = c, !.moved = TRUE]]
    /\ UNCHANGED <<gradingScheme, schoolDefault, result, members, task>>

Grade(x, p) ==
    /\ x \in Sat /\ (p \in DOMAIN result[x] \/ PupilSchool[p] = paper[x].school)
    /\ \E n \in Percents, reviewed \in BOOLEAN :
          result' = [result EXCEPT ![x] =
             [q \in DOMAIN @ \cup {p} |->
                 IF q = p THEN [percent |-> n, reviewed |-> reviewed] ELSE @[q]]]
    /\ UNCHANGED <<gradingScheme, schoolDefault, paper, members, task>>

Enrol(p) ==
    /\ members' = IF p \in members THEN members \ {p} ELSE members \cup {p}
    /\ UNCHANGED <<gradingScheme, schoolDefault, paper, result, task>>

ReportsNext ==
    \/ \E w \in Requests :
          \/ \E c \in Schools, g \in SchemeRows : BeginSave(w, c, g)
          \/ \E g \in SchemeRows : BeginDelete(w, g)
          \/ \E c \in Schools, g \in SchemeRows \cup {NoScheme} :
                \/ BeginDefault(w, c, g)
                \/ \E x \in Papers : BeginAttach(w, x, g, c) \/ BeginCreate(w, x, g, c)
          \/ CommitSave(w) \/ CommitDelete(w) \/ CommitAttach(w) \/ CommitCreate(w)
          \/ CommitDefault(w)
    \/ \E x \in Papers :
          \/ Finalize(x)
          \/ \E c \in Schools : MovePaper(x, c)
          \/ \E p \in Pupils : Grade(x, p)
    \/ \E p \in Pupils : Enrol(p)

ReportsSpec == ReportsInit /\ [][ReportsNext]_reportVars

-----------------------------------------------------------------------------
(***************************************************************************)
(* Statistics and export                                                   *)
(***************************************************************************)
\* resolve_scheme_config
Resolved(x) == IF paper[x].scheme # NoScheme THEN paper[x].scheme
               ELSE schoolDefault[paper[x].school]
ScaleOf(x) == IF Resolved(x) # NoScheme /\ Exists(Resolved(x))
              THEN gradingScheme[Resolved(x)].scale ELSE NoScheme

\* is_passing: a stepped scale says itself what passes.
Passes(n, scale) ==
    IF scale # NoScheme /\ scale.stepped THEN n \in scale.pass ELSE n >= Threshold

PassCount(x, P) ==
    Cardinality({p \in P \cap DOMAIN result[x] : Passes(result[x][p].percent, ScaleOf(x))})

Overview(x) == [submissions |-> Cardinality(DOMAIN result[x]),
                passed |-> PassCount(x, DOMAIN result[x])]

\* class_history has the count once more, for the members of the class.
ClassPasses(n, scale) == Passes(n, scale)

ClassOf(c) == {p \in members : PupilSchool[p] = c}
ClassAggregate(c, x) ==
    LET there == IF paper[x].school = c THEN ClassOf(c) \cap DOMAIN result[x] ELSE {}
    IN  [submissions |-> Cardinality(there),
         passed |-> Cardinality({p \in there :
                        ClassPasses(result[x][p].percent, ScaleOf(x))})]

\* student_history: exams of the pupil's institution.
History(p) == {x \in Sat : paper[x].school = PupilSchool[p] /\ p \in DOMAIN result[x]}

\* Answers counted by Bloom level, which ask for no institution.
BloomMix(p) == {x \in Sat : p \in DOMAIN result[x]}

\* The export waits for every review and names a grade with a scheme only.
Exportable(x) == x \in Sat /\ ~paper[x].draft /\ \A p \in DOMAIN result[x] : result[x][p].reviewed
Labelled(x) == Exportable(x) /\ ScaleOf(x) # NoScheme

-----------------------------------------------------------------------------
\* Whatever is created, attached and removed at the same time: every scheme in
\* use exists, nobody has two defaults, and institutions are graded by their
\* own schemes or the system's, unless an exam changed hands or a superuser of
\* another institution chose; the class and the exam count the same pupils as
\* passed, and everybody's history has the exams that were graded.
ReportsSound ==
    /\ \A x \in Sat : ~Dangling(paper[x].scheme)
    /\ \A c \in Schools : /\ ~Dangling(schoolDefault[c]) /\ ~Foreign(schoolDefault[c], c)
                          /\ Cardinality(Flagged(c)) <= 1
    /\ \A x \in Sat : ~paper[x].moved =>
          /\ ~paper[x].lent => ~Foreign(Resolved(x), paper[x].school)
          /\ \A p \in DOMAIN result[x] : x \in History(p)
          /\ LET c == paper[x].school
                 rest == DOMAIN result[x] \ ClassOf(c)
             IN  /\ Overview(x).passed = ClassAggregate(c, x).passed + PassCount(x, rest)
                 /\ Overview(x).submissions =
                       ClassAggregate(c, x).submissions + Cardinality(rest)

\* What is not so: that the scheme of an exam stays in its institution's hands
\* whatever happens, that an exam without a scheme is graded by the one flagged
\* as its institution's default, and that the two halves of a pupil's history
\* count the same exams.  TLC refutes all three (README, section 4).
ScaleInOwnHands == \A x \in Sat : ~Foreign(Resolved(x), paper[x].school)
FlaggedIsDefault == \A x \in Sat :
    paper[x].scheme = NoScheme => Flagged(paper[x].school) \subseteq {Resolved(x)}
HistoryInOnePiece == \A p \in Pupils : BloomMix(p) = History(p)

=============================================================================
