----------------------------- MODULE Visibility -----------------------------
(***************************************************************************)
(* Who sees one document, question, exam or competency framework, and who  *)
(* may change it (backend/utils/*_visibility.py and the handlers that call *)
(* them).                                                                  *)
(*                                                                         *)
(* The rule is written eight times: for each kind as a filter of queries   *)
(* and as a predicate on a row.  The resource, its owner and the units can *)
(* drift apart: people are transferred with or without what they own, the  *)
(* unit and the visibility of a resource stay.  Every account belongs to an *)
(* institution (users.institution_id is NOT NULL).                         *)
(***************************************************************************)
EXTENDS Integers, FiniteSets

CONSTANTS
    Viewers,
    Superusers,
    Campuses,    \* institutions
    Teams,       \* organisation units
    CampusOf,    \* [Teams -> Campuses]
    Below,       \* [Teams -> SUBSET Teams]: itself and its descendants
    NoTeam,
    NoOwner,
    Nothing      \* the resource does not exist

ASSUME VisibilityAssumption ==
    /\ Superusers \subseteq Viewers
    /\ CampusOf \in [Teams -> Campuses] /\ Below \in [Teams -> SUBSET Teams]
    /\ NoTeam \notin Teams /\ NoOwner \notin Viewers

VARIABLES
    kind,        \* of the resource: document, question, exam or framework
    resource,
    viewer       \* [Viewers -> campus, teams, and rights]

sightVars == <<kind, resource, viewer>>

-----------------------------------------------------------------------------
Scopes == {"private", "team", "institution"}

\* get_user_accessible_org_unit_ids
Accessible(v) ==
    {t \in UNION {Below[s] : s \in viewer[v].teams} : CampusOf[t] = viewer[v].campus}

Super(v) == v \in Superusers
Owns(v) == resource.owner = v
AtHome(v) == resource.campus = viewer[v].campus
ByTeam(v) == resource.scope = "team" /\ resource.team \in Accessible(v)
ByCampus(v) == resource.scope = "institution" /\ AtHome(v)
ReadsAll(v) == viewer[v].readAll /\ AtHome(v)
InTenant(v) == Super(v) \/ AtHome(v)      \* filter_by_tenant

SightInit ==
    /\ kind \in {"document", "question", "exam", "framework"}
    /\ resource = Nothing
    /\ viewer \in [Viewers -> [campus : Campuses, teams : {{}}, readAll : {FALSE},
                               manages : {FALSE}]]

-----------------------------------------------------------------------------
(***************************************************************************)
(* Lists: filter_*_for_user                                                *)
(***************************************************************************)
DocumentListed(v) ==
    /\ ~resource.managed
    /\ \/ Super(v) \/ Owns(v)
       \/ IF viewer[v].readAll THEN AtHome(v) ELSE ByCampus(v) \/ ByTeam(v)

QuestionListed(v) ==
    \/ Super(v) \/ Owns(v)
    \/ IF viewer[v].readAll THEN AtHome(v) ELSE ByCampus(v) \/ (ByTeam(v) /\ AtHome(v))

ExamListed(v) ==
    \/ Super(v) \/ Owns(v)
    \/ IF viewer[v].readAll THEN AtHome(v) ELSE ByCampus(v) \/ (ByTeam(v) /\ AtHome(v))

FrameworkListed(v) ==
    \/ Super(v) \/ Owns(v)
    \/ IF viewer[v].readAll THEN AtHome(v) ELSE ByCampus(v) \/ (ByTeam(v) /\ AtHome(v))

(***************************************************************************)
(* Rows: is_*_visible_for; bypass is allow_read_all_bypass, athome is      *)
(* require_same_institution.                                               *)
(***************************************************************************)
DocumentOpens(v, bypass) ==
    /\ ~resource.managed
    /\ Super(v) \/ (bypass /\ ReadsAll(v)) \/ Owns(v) \/ ByCampus(v) \/ ByTeam(v)

QuestionOpens(v, bypass) ==
    Super(v) \/ (bypass /\ ReadsAll(v)) \/ Owns(v) \/ ByCampus(v) \/ (ByTeam(v) /\ AtHome(v))

ExamOpensMutant(v, bypass, athome) ==
    \/ Super(v) \/ (bypass /\ ReadsAll(v)) \/ ByCampus(v) \/ ByTeam(v)
    \/ Owns(v) /\ (athome => AtHome(v))
ExamOpens(v, bypass, athome) ==
    \/ Super(v) \/ (bypass /\ ReadsAll(v)) \/ ByCampus(v) \/ (ByTeam(v) /\ AtHome(v))
    \/ Owns(v) /\ (athome => AtHome(v))

FrameworkOpens(v, bypass, athome) ==
    \/ Super(v) \/ (bypass /\ ReadsAll(v)) \/ ByCampus(v) \/ (ByTeam(v) /\ AtHome(v))
    \/ Owns(v) /\ (athome => AtHome(v))

\* resolve_framework_for_user: also for the prompt and the tags of a generation.
FrameworkUsable(v) == AtHome(v) /\ ~resource.archived /\ FrameworkOpens(v, TRUE, FALSE)

Listed(v) ==
    CASE kind = "document" -> DocumentListed(v)
      [] kind = "question" -> QuestionListed(v)
      [] kind = "exam" -> ExamListed(v)
      [] kind = "framework" -> FrameworkListed(v)

Opens(v) ==
    CASE kind = "document" -> DocumentOpens(v, TRUE)
      [] kind = "question" -> QuestionOpens(v, TRUE)
      [] kind = "exam" -> ExamOpens(v, TRUE, FALSE)
      [] kind = "framework" -> FrameworkOpens(v, TRUE, FALSE)

-----------------------------------------------------------------------------
(***************************************************************************)
(* Who may change it: update_document; edit_question (_get_scoped_question)*)
(* ; _get_exam_or_404 of every mutation; _get_for_write.                   *)
(***************************************************************************)
EditsDocument(v) == DocumentOpens(v, TRUE) /\ (Owns(v) \/ Super(v))
EditsQuestion(v) == InTenant(v)
EditsExam(v) == ExamOpens(v, FALSE, TRUE)
EditsFramework(v) ==
    FrameworkOpens(v, FALSE, TRUE) /\ (viewer[v].manages \/ Super(v) \/ Owns(v))

Edits(v) ==
    CASE kind = "document" -> EditsDocument(v)
      [] kind = "question" -> EditsQuestion(v)
      [] kind = "exam" -> EditsExam(v)
      [] kind = "framework" -> EditsFramework(v)

\* enforce_resource_access, and the admin of the same institution; a document
\* always has an owner.
DeletesDocument(v) ==
    /\ ~resource.managed
    /\ Super(v) \/ (AtHome(v) /\ (viewer[v].manages \/ Owns(v)))

-----------------------------------------------------------------------------
(***************************************************************************)
(* What else is done with it, each handler with a check of its own: a      *)
(* document is picked and used for a generation, fetched, read and labelled*)
(* (personal labels without ownership, but not by right to read all); a    *)
(* question is offered to exams, previewed, and discussed in its review; an*)
(* exam is listed, its results and grades are the institution's, and for   *)
(* them a superuser is nobody special.                                     *)
(***************************************************************************)
Available(v) == DocumentListed(v)
Sourced(v) == DocumentListed(v)
Usable(v) == DocumentOpens(v, TRUE)
Fetches(v) == DocumentOpens(v, TRUE)
Reads(v) == DocumentOpens(v, TRUE)
Labels(v) == DocumentOpens(v, FALSE)
LabelsForAll(v) == Labels(v) /\ (Owns(v) \/ Super(v))

Offered(v) == QuestionListed(v)
Composable(v) == QuestionOpens(v, TRUE)
Previewed(v) == InTenant(v)
Queued(v) == InTenant(v)
Discusses(v) == EditsQuestion(v)

Browsed(v) == ExamListed(v)
SeesResults(v) == AtHome(v)
SeesGrades(v) == AtHome(v)
ExportsGrades(v) == AtHome(v)

-----------------------------------------------------------------------------
(***************************************************************************)
(* Handlers                                                                *)
(***************************************************************************)

\* A unit of one's own is asked for; superusers may name any, except at uploads.
OwnTeam(v, scope, t) ==
    IF scope # "team" THEN t = NoTeam
    ELSE t \in Accessible(v) \/ (Super(v) /\ t \in Teams)

Create(v, scope, t, managed) ==
    /\ resource = Nothing
    /\ resource' = [campus |-> viewer[v].campus, owner |-> v, scope |-> scope, team |-> t,
                    archived |-> FALSE, managed |-> managed]
    /\ UNCHANGED <<kind, viewer>>

\* managed_by: the document is the internal file of a module outside src/.
UploadDocument(v, scope, t) ==
    /\ kind = "document"
    /\ scope = "team" => t \in Accessible(v)
    /\ OwnTeam(v, scope, t)
    /\ \E managed \in BOOLEAN : Create(v, scope, t, managed)

\* create_question_review and the generation leave the default.
CreateQuestion(v) == kind = "question" /\ Create(v, "institution", NoTeam, FALSE)

CreateExam(v, scope, t) ==
    kind = "exam" /\ OwnTeam(v, scope, t) /\ Create(v, scope, t, FALSE)

CreateFramework(v, scope, t) ==
    kind = "framework" /\ OwnTeam(v, scope, t) /\ Create(v, scope, t, FALSE)

Rescope(v, scope, t) ==
    /\ resource # Nothing
    /\ <<scope, t>> # <<resource.scope, resource.team>>
    /\ OwnTeam(v, scope, t)
    /\ resource' = [resource EXCEPT !.scope = scope, !.team = t]
    /\ UNCHANGED <<kind, viewer>>

RescopeDocument(v, scope, t) ==
    kind = "document" /\ Rescope(v, scope, t) /\ EditsDocument(v)
RescopeQuestion(v, scope, t) ==
    kind = "question" /\ Rescope(v, scope, t) /\ EditsQuestion(v) /\ (Owns(v) \/ Super(v))
RescopeExam(v, scope, t) ==
    kind = "exam" /\ Rescope(v, scope, t) /\ EditsExam(v) /\ (Owns(v) \/ Super(v))
RescopeFramework(v, scope, t) ==
    kind = "framework" /\ Rescope(v, scope, t) /\ EditsFramework(v)

ArchiveFramework(v) ==
    /\ kind = "framework" /\ resource # Nothing
    /\ EditsFramework(v)
    /\ resource' = [resource EXCEPT !.archived = ~@]
    /\ UNCHANGED <<kind, viewer>>

DeleteDocument(v) ==
    /\ kind = "document" /\ resource # Nothing
    /\ DeletesDocument(v)
    /\ resource' = Nothing
    /\ UNCHANGED <<kind, viewer>>

-----------------------------------------------------------------------------
(***************************************************************************)
(* What administrators do to people                                        *)
(***************************************************************************)

SetMembership(v, t) ==
    /\ t \in viewer[v].teams \/ CampusOf[t] = viewer[v].campus
    /\ viewer' = [viewer EXCEPT ![v].teams =
                     IF t \in @ THEN @ \ {t} ELSE @ \cup {t}]
    /\ UNCHANGED <<kind, resource>>

SetRights(v, all, manages) ==
    /\ viewer' = [viewer EXCEPT ![v] = [@ EXCEPT !.readAll = all, !.manages = manages]]
    /\ UNCHANGED <<kind, resource>>

\* transfer_user; frameworks never move, the others if the flag is set.
TransferUser(v, c, moves) ==
    /\ c # viewer[v].campus
    /\ viewer' = [viewer EXCEPT ![v] = [@ EXCEPT !.campus = c, !.teams = {}]]
    /\ resource' = IF moves /\ resource # Nothing /\ kind # "framework"
                         /\ Owns(v) /\ AtHome(v)
                   THEN [resource EXCEPT !.campus = c] ELSE resource
    /\ UNCHANGED kind

\* The account is erased: documents go with it, the rest stays without owner.
EraseOwner(v) ==
    /\ resource # Nothing /\ Owns(v)
    /\ resource' = IF kind = "document" THEN Nothing
                   ELSE [resource EXCEPT !.owner = NoOwner]
    /\ viewer' = [viewer EXCEPT ![v] = [@ EXCEPT !.teams = {}, !.readAll = FALSE,
                                             !.manages = FALSE]]
    /\ UNCHANGED kind

SightNext == \E v \in Viewers :
    \/ \E scope \in Scopes, t \in Teams \cup {NoTeam} :
          \/ UploadDocument(v, scope, t) \/ CreateExam(v, scope, t)
          \/ CreateFramework(v, scope, t)
          \/ RescopeDocument(v, scope, t) \/ RescopeQuestion(v, scope, t)
          \/ RescopeExam(v, scope, t) \/ RescopeFramework(v, scope, t)
    \/ CreateQuestion(v) \/ ArchiveFramework(v) \/ DeleteDocument(v) \/ EraseOwner(v)
    \/ \E t \in Teams : SetMembership(v, t)
    \/ \E all, manages \in BOOLEAN : SetRights(v, all, manages)
    \/ \E c \in Campuses, moves \in BOOLEAN : TransferUser(v, c, moves)

SightSpec == SightInit /\ [][SightNext]_sightVars

-----------------------------------------------------------------------------
\* However people are transferred: questions, exams and frameworks of another
\* institution are seen by nobody but their owner, changed by nobody at all, and
\* the filter of the lists agrees with the check of the row; so does what is
\* offered with what can be put into an exam.  A document that can be picked can
\* be used, fetched and read, and who changes it or its labels has it on the
\* list.  Who composes an exam sees its results, and nobody elsewhere does.  For
\* every kind, a private resource is shown to its owner and to who reads all,
\* and what may be changed or used in a generation is shown (but for the review
\* of questions, which is the institution's).
SightSound == resource # Nothing =>
    \A v \in Viewers \ Superusers :
        /\ kind # "document" =>
              /\ Listed(v) <=> Opens(v)
              /\ Opens(v) => AtHome(v) \/ Owns(v)
              /\ Edits(v) => AtHome(v)
        /\ kind = "document" =>
              /\ Available(v) \/ Sourced(v) => Usable(v) /\ Fetches(v) /\ Reads(v)
              /\ EditsDocument(v) => LabelsForAll(v) /\ Available(v)
              /\ Labels(v) => Fetches(v)
        /\ kind = "question" =>
              /\ Offered(v) <=> Composable(v)
              /\ Offered(v) /\ ~Owns(v) => Previewed(v) /\ Queued(v) /\ Discusses(v)
        /\ kind = "exam" =>
              /\ EditsExam(v) => Browsed(v) /\ SeesResults(v) /\ SeesGrades(v)
              /\ ExportsGrades(v) /\ Browsed(v) => Opens(v)
        /\ resource.scope = "private" /\ Opens(v) => Owns(v) \/ ReadsAll(v)
        /\ kind # "question" /\ Edits(v) => Listed(v)
        /\ kind = "framework" /\ FrameworkUsable(v) => Listed(v)
        /\ (resource.scope = "team") <=> (resource.team # NoTeam)

\* The same of documents: who was left behind by a transferred owner; that a
\* right to read removes nothing from the list ("granting a read permission must
\* never remove visibility"); and that an owner of elsewhere changes nothing.
\* And that what the pool offers can be previewed, and that a private question or
\* exam is previewed, reviewed and graded by who may see it.  TLC refutes all
\* five (README, section 4).
DocumentsAtHome == resource # Nothing => \A v \in Viewers \ Superusers :
    kind = "document" /\ Opens(v) => AtHome(v) \/ Owns(v)
GrantHidesNothing == resource # Nothing => \A v \in Viewers :
    kind = "document" /\ DocumentOpens(v, FALSE) => Listed(v)
DocumentsChangedAtHome == resource # Nothing => \A v \in Viewers \ Superusers :
    kind = "document" /\ Edits(v) => AtHome(v)
PoolPreviews == resource # Nothing => \A v \in Viewers :
    kind = "question" /\ Offered(v) => Previewed(v)
PrivateIsPrivate == resource # Nothing => \A v \in Viewers :
    /\ kind = "question" /\ (Previewed(v) \/ Queued(v)) => Opens(v)
    /\ kind = "exam" /\ (SeesResults(v) \/ SeesGrades(v)) => Opens(v)

=============================================================================
