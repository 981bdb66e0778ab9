------------------------------- MODULE Roster -------------------------------
(***************************************************************************)
(* Students and classes of one institution: what the handlers of           *)
(* backend/api/student_classes.py do to them while imports of results      *)
(* (backend/services/import_service.py) look students and classes up by    *)
(* name and insert the missing ones.                                       *)
(*                                                                         *)
(* An import is one transaction.  A row it inserted is seen by the others  *)
(* only after its commit, but whoever inserts the same key waits for it; a *)
(* savepoint around every insert turns a duplicate into a second look.     *)
(***************************************************************************)
EXTENDS Integers, Sequences, SequencesExt, FiniteSets

CONSTANTS
    Imports,
    ExternalIds,  \* students, by what the platform calls them
    ClassRows,    \* rows of student_classes
    ClassNames,
    NoClass,      \* no hint; a row that does not exist
    MaxStudents   \* students of one import (bound)

ASSUME RosterAssumption == 
    MaxStudents \in Nat \ {0} /\ NoClass \notin ClassNames \cup ClassRows \cup ExternalIds

VARIABLES
    enrolled,    \* students that are committed
    className,   \* [ClassRows -> ClassNames or NoClass]
    classMember, \* committed memberships: <<student, class>>
    import       \* [Imports -> what the transaction did]

rosterVars == <<enrolled, className, classMember, import>>

-----------------------------------------------------------------------------
Refs == [student : ExternalIds, hint : ClassNames \cup {NoClass}]
Payloads == {p \in UNION {[1..n -> Refs] : n \in 1..MaxStudents} :
                \A m, n \in DOMAIN p : p[m].student = p[n].student => m = n}

Fresh(p) == [stage |-> "queued", payload |-> p, known |-> {}, inserted |-> {},
             class |-> [n \in ClassNames |-> NoClass], created |-> {}, had |-> {},
             joined |-> {}, next |-> 1, touched |-> FALSE, followed |-> FALSE]

RosterInit ==
    /\ enrolled \in SUBSET ExternalIds
    /\ className = [c \in ClassRows |-> NoClass]
    /\ classMember = {}
    /\ import \in [Imports -> {Fresh(p) : p \in Payloads}]

NamesInUse == {className[c] : c \in ClassRows} \ {NoClass}
Named(n) == CHOOSE c \in ClassRows : className[c] = n

Step(i, record) == import' = [import EXCEPT ![i] = record]
Others(i) == Imports \ {i}
AtWork(i) == import[i].stage \in {"students", "classes", "members"}

-----------------------------------------------------------------------------
(***************************************************************************)
(* _upsert_students                                                        *)
(***************************************************************************)
BeginImport(i) ==
    /\ import[i].stage = "queued"
    /\ Step(i, [Fresh(import[i].payload) EXCEPT
                   !.stage = "students",
                   !.known = {r.student : r \in Range(import[i].payload)} \cap enrolled])
    /\ UNCHANGED <<enrolled, className, classMember>>

\* The first student in the payload without a row.
NextStudent(i) ==
    LET missing == {n \in DOMAIN import[i].payload :
                       import[i].payload[n].student \notin import[i].known}
    IN  IF missing = {} THEN NoClass
        ELSE import[i].payload[Min(missing)].student

WaitsForStudent(i, j) ==
    import[i].stage = "students" /\ NextStudent(i) \in import[j].inserted

UpsertStudent(i) ==
    LET s == NextStudent(i) IN
    /\ import[i].stage = "students"
    /\ \A j \in Others(i) : ~WaitsForStudent(i, j)
    /\ Step(i, IF s = NoClass THEN [import[i] EXCEPT !.stage = "classes"]
               ELSE [import[i] EXCEPT !.known = @ \cup {s},
                        !.inserted = IF s \in enrolled THEN @ ELSE @ \cup {s}])
    /\ UNCHANGED <<enrolled, className, classMember>>

-----------------------------------------------------------------------------
(***************************************************************************)
(* _attach_class_memberships                                               *)
(***************************************************************************)
Hints(i) == {r.hint : r \in Range(import[i].payload)} \ {NoClass}
Hinted(i) == {n \in DOMAIN import[i].payload : import[i].payload[n].hint # NoClass}

ReadClasses(i) ==
    /\ import[i].stage = "classes"
    /\ Step(i, [import[i] EXCEPT !.stage = "members",
          !.class = [n \in ClassNames |->
                        IF n \in Hints(i) \cap NamesInUse THEN Named(n) ELSE NoClass],
          !.had = classMember])
    /\ UNCHANGED <<enrolled, className, classMember>>

\* One student after the other; in the code, those of a class together.
Waiting(i) == {n \in Hinted(i) : import[i].next <= n}
Current(i) == import[i].payload[Min(Waiting(i))]
HasCurrent(i) == import[i].stage = "members" /\ Waiting(i) # {}
Creates(i) == HasCurrent(i) /\ import[i].class[Current(i).hint] = NoClass

WaitsForClass(i, j) ==
    Creates(i) /\ \E c \in import[j].created : c[2] = Current(i).hint

With(i, n, c) == [import[i].class EXCEPT ![n] = c]

\* A class of this name may have been committed since they were read.
UpsertClass(i) ==
    /\ Creates(i)
    /\ \A j \in Others(i) : ~WaitsForClass(i, j)
    /\ LET n == Current(i).hint IN
       \/ /\ n \in NamesInUse
          /\ Step(i, [import[i] EXCEPT !.class = With(i, n, Named(n))])
       \/ /\ n \notin NamesInUse
          /\ \E c \in ClassRows :
                /\ className[c] = NoClass
                /\ \A j \in Imports : c \notin {d[1] : d \in import[j].created}
                /\ Step(i, [import[i] EXCEPT !.class = With(i, n, c),
                                              !.created = @ \cup {<<c, n>>}])
    /\ UNCHANGED <<enrolled, className, classMember>>

Pair(i) == <<Current(i).student, import[i].class[Current(i).hint]>>
Joins(i) == HasCurrent(i) /\ ~Creates(i)
WaitsForMember(i, j) == Joins(i) /\ Pair(i) \in import[j].joined

\* A duplicate, but also a class that was deleted, is passed over.  A class
\* that the import has made itself is flushed before.
InsertableMutant(i) ==
    /\ Pair(i) \notin import[i].had \cup classMember
    /\ className[Pair(i)[2]] # NoClass
Insertable(i) ==
    /\ Pair(i) \notin import[i].had \cup classMember
    /\ className[Pair(i)[2]] # NoClass \/ Pair(i)[2] \in {c[1] : c \in import[i].created}

JoinClass(i) ==
    /\ Joins(i)
    /\ \A j \in Others(i) : ~WaitsForMember(i, j)
    /\ Step(i, [import[i] EXCEPT !.next = Min(Waiting(i)) + 1,
                   !.joined = IF Insertable(i) THEN @ \cup {Pair(i)} ELSE @])
    /\ UNCHANGED <<enrolled, className, classMember>>

-----------------------------------------------------------------------------
(***************************************************************************)
(* The end of the transaction                                              *)
(***************************************************************************)
AfterCommit(i) ==
    [c \in ClassRows |-> IF \E d \in import[i].created : d[1] = c
                         THEN (CHOOSE d \in import[i].created : d[1] = c)[2]
                         ELSE className[c]]

Followed(i, names, pairs) ==
    \A n \in Hinted(i) :
        LET r == import[i].payload[n]
        IN  \E c \in ClassRows : names[c] = r.hint /\ <<r.student, c>> \in pairs

CommitImport(i) ==
    /\ import[i].stage = "members" /\ Waiting(i) = {}
    /\ enrolled' = enrolled \cup import[i].inserted
    /\ className' = AfterCommit(i)
    /\ classMember' = classMember \cup import[i].joined
    /\ Step(i, [Fresh(import[i].payload) EXCEPT !.stage = "done", !.touched = import[i].touched,
                   !.followed = Followed(i, className', classMember')])

WaitsFor(i, j) == WaitsForStudent(i, j) \/ WaitsForClass(i, j) \/ WaitsForMember(i, j)
Deadlocked(i) == \E j \in Others(i) : WaitsFor(i, j) /\ WaitsFor(j, i)

\* An error, the death of the worker, or the database ending a deadlock; the
\* task is retried, or it gave up.
RollBack(i) ==
    /\ AtWork(i)
    /\ \E stage \in {"queued", "failed"} :
          Step(i, [Fresh(import[i].payload) EXCEPT !.stage = stage])
    /\ UNCHANGED <<enrolled, className, classMember>>

-----------------------------------------------------------------------------
(***************************************************************************)
(* Handlers; each waits for a row that an import has inserted or refers to.*)
(***************************************************************************)
Reserved(n) == \E i \in Imports : \E c \in import[i].created : c[2] = n
Referred(c) == \E i \in Imports : \E p \in import[i].joined : p[2] = c
Made(c) == \E i \in Imports : c \in {d[1] : d \in import[i].created}
Touch == import' = [i \in Imports |-> [import[i] EXCEPT !.touched = import[i].touched \/ AtWork(i)]]

CreateStudentClass(c, n) ==
    /\ className[c] = NoClass /\ ~Made(c)
    /\ n \notin NamesInUse /\ ~Reserved(n)
    /\ className' = [className EXCEPT ![c] = n]
    /\ UNCHANGED <<enrolled, classMember, import>>

UpdateStudentClass(c, n) ==
    /\ className[c] # NoClass /\ ~Referred(c)
    /\ n \notin NamesInUse /\ ~Reserved(n)
    /\ className' = [className EXCEPT ![c] = n]
    /\ Touch
    /\ UNCHANGED <<enrolled, classMember>>

DeleteStudentClass(c) ==
    /\ className[c] # NoClass /\ ~Referred(c)
    /\ className' = [className EXCEPT ![c] = NoClass]
    /\ classMember' = {p \in classMember : p[2] # c}
    /\ Touch
    /\ UNCHANGED enrolled

AddMember(s, c) ==
    /\ s \in enrolled /\ className[c] # NoClass /\ <<s, c>> \notin classMember
    /\ \A i \in Imports : <<s, c>> \notin import[i].joined
    /\ classMember' = classMember \cup {<<s, c>>}
    /\ UNCHANGED <<enrolled, className, import>>

RemoveMember(s, c) ==
    /\ <<s, c>> \in classMember
    /\ classMember' = classMember \ {<<s, c>>}
    /\ Touch
    /\ UNCHANGED <<enrolled, className>>

RosterNext ==
    \/ \E i \in Imports :
          \/ BeginImport(i) \/ UpsertStudent(i) \/ ReadClasses(i) \/ UpsertClass(i)
          \/ JoinClass(i) \/ CommitImport(i) \/ RollBack(i)
    \/ \E c \in ClassRows :
          \/ \E n \in ClassNames : CreateStudentClass(c, n) \/ UpdateStudentClass(c, n)
          \/ DeleteStudentClass(c)
          \/ \E s \in ExternalIds : AddMember(s, c) \/ RemoveMember(s, c)

RosterSpec == RosterInit /\ [][RosterNext]_rosterVars

-----------------------------------------------------------------------------
\* Two imports of the same students into the same classes: whoever inserts
\* first, an import that is done has put everybody into the class named in the
\* file, unless a class was renamed or deleted, or somebody taken out, while it
\* ran; every member is a student and every class has one name of its own.
HintsFollowed ==
    /\ \A i \in DOMAIN import : import[i].stage = "done" => import[i].followed \/ import[i].touched
    /\ \A p \in classMember : p[1] \in enrolled /\ className[p[2]] # NoClass
    /\ \A c, d \in DOMAIN className : className[c] = className[d] /\ className[c] # NoClass => c = d

\* What is not so: that a done import did so whatever else happened, and that
\* imports never wait for each other ("race-safe").  TLC refutes both (README,
\* section 4).
HintsAlwaysFollowed == \A i \in Imports : import[i].stage = "done" => import[i].followed
ImportsNeverBlock == \A i \in Imports : ~Deadlocked(i)

=============================================================================
