---------------------------- MODULE ServicesProofs ----------------------------
(***************************************************************************)
(* Proofs about the smaller components, one section each.  They share no   *)
(* state; every theorem is about the specification of one of them.         *)
(***************************************************************************)
EXTENDS SignIn, Administration, Visibility, Review, ProgressStream, MailEvents,
        HelpIndex, FiniteSetTheorems, TLAPS

\* What "with one server process" means for those that run.
LEMMA SoleProcess ==
    ASSUME NEW T, IsFiniteSet(T), NEW S \in SUBSET T, Cardinality(S) = 1,
           NEW x \in S, NEW y \in S
    PROVE  x = y
<1>1. IsFiniteSet(S)
  BY FS_Subset
<1> QED
  BY <1>1, FS_Singleton

-----------------------------------------------------------------------------
(***************************************************************************)
(* Visibility                                                              *)
(***************************************************************************)

\* All that sight depends on: a scope with a unit exactly if it is a team's.
Rights == [campus : Campuses, teams : SUBSET Teams, readAll : BOOLEAN, manages : BOOLEAN]
Resources == {r \in [campus : Campuses, owner : Viewers \cup {NoOwner}, scope : Scopes,
                     team : Teams \cup {NoTeam}, archived : BOOLEAN,
                     managed : BOOLEAN] :
                 r.scope = "team" <=> r.team # NoTeam}
SightInv ==
    /\ kind \in {"document", "question", "exam", "framework"}
    /\ viewer \in [Viewers -> Rights]
    /\ resource # Nothing => resource \in Resources

\* The lists and the rows of whom are related as SightSound says, kind by kind.
LEMMA DocumentsSound ==
    ASSUME SightInv, resource # Nothing, kind = "document", NEW v \in Viewers \ Superusers
    PROVE  /\ Available(v) \/ Sourced(v) => Usable(v) /\ Fetches(v) /\ Reads(v)
           /\ EditsDocument(v) => LabelsForAll(v) /\ Available(v)
           /\ Labels(v) => Fetches(v)
           /\ resource.scope = "private" /\ Opens(v) => Owns(v) \/ ReadsAll(v)
           /\ Edits(v) => Listed(v)
<1>1. viewer[v].readAll \in BOOLEAN
  BY DEF SightInv, Rights
<1> QED
  BY <1>1 DEF Available, Sourced, Usable, Fetches, Reads, Labels, LabelsForAll,
     EditsDocument, Edits, Listed, Opens, DocumentListed, DocumentOpens, ReadsAll, Super,
     Owns, ByTeam, ByCampus

LEMMA QuestionsSound ==
    ASSUME SightInv, resource # Nothing, kind = "question", NEW v \in Viewers \ Superusers
    PROVE  /\ Listed(v) <=> Opens(v)
           /\ Opens(v) => AtHome(v) \/ Owns(v)
           /\ Edits(v) => AtHome(v)
           /\ Offered(v) <=> Composable(v)
           /\ Offered(v) /\ ~Owns(v) => Previewed(v) /\ Queued(v) /\ Discusses(v)
           /\ resource.scope = "private" /\ Opens(v) => Owns(v) \/ ReadsAll(v)
<1>1. viewer[v].readAll \in BOOLEAN
  BY DEF SightInv, Rights
<1>2. resource.scope \in Scopes
  BY DEF SightInv, Resources
<1>3. ~Super(v)
  BY DEF Super
<1>4. QuestionListed(v) <=> QuestionOpens(v, TRUE)
  BY <1>1, <1>2, <1>3
     DEF QuestionListed, QuestionOpens, ReadsAll, ByTeam, ByCampus, Scopes, Owns
<1> QED
  BY <1>1, <1>3, <1>4 DEF Offered, Composable, Previewed, Queued, Discusses, EditsQuestion,
     InTenant, Edits, Listed, Opens, QuestionOpens, ReadsAll, ByTeam, ByCampus

LEMMA ExamsSound ==
    ASSUME SightInv, resource # Nothing, kind = "exam", NEW v \in Viewers \ Superusers
    PROVE  /\ Listed(v) <=> Opens(v)
           /\ Opens(v) => AtHome(v) \/ Owns(v)
           /\ Edits(v) => AtHome(v)
           /\ EditsExam(v) => Browsed(v) /\ SeesResults(v) /\ SeesGrades(v)
           /\ ExportsGrades(v) /\ Browsed(v) => Opens(v)
           /\ resource.scope = "private" /\ Opens(v) => Owns(v) \/ ReadsAll(v)
           /\ Edits(v) => Listed(v)
<1>1. viewer[v].readAll \in BOOLEAN
  BY DEF SightInv, Rights
<1>3. ~Super(v)
  BY DEF Super
<1>4. ExamListed(v) <=> ExamOpens(v, TRUE, FALSE)
  BY <1>1, <1>3 DEF ExamListed, ExamOpens, ReadsAll, ByTeam, ByCampus, Owns
<1>5. ExamOpens(v, FALSE, TRUE) => ExamOpens(v, TRUE, FALSE) /\ AtHome(v)
  BY <1>3 DEF ExamOpens, ByTeam, ByCampus
<1> QED
  BY <1>1, <1>3, <1>4, <1>5 DEF EditsExam, Browsed, SeesResults, SeesGrades, ExportsGrades,
     Edits, Listed, Opens, ExamOpens, ReadsAll, ByTeam, ByCampus

LEMMA FrameworksSound ==
    ASSUME SightInv, resource # Nothing, kind = "framework", NEW v \in Viewers \ Superusers
    PROVE  /\ Listed(v) <=> Opens(v)
           /\ Opens(v) => AtHome(v) \/ Owns(v)
           /\ Edits(v) => AtHome(v)
           /\ resource.scope = "private" /\ Opens(v) => Owns(v) \/ ReadsAll(v)
           /\ Edits(v) => Listed(v)
           /\ FrameworkUsable(v) => Listed(v)
<1>1. viewer[v].readAll \in BOOLEAN
  BY DEF SightInv, Rights
<1>3. ~Super(v)
  BY DEF Super
<1>4. FrameworkListed(v) <=> FrameworkOpens(v, TRUE, FALSE)
  BY <1>1, <1>3 DEF FrameworkListed, FrameworkOpens, ReadsAll, ByTeam, ByCampus, Owns
<1>5. FrameworkOpens(v, FALSE, TRUE) => FrameworkOpens(v, TRUE, FALSE) /\ AtHome(v)
  BY <1>3 DEF FrameworkOpens, ByTeam, ByCampus
<1> QED
  BY <1>1, <1>3, <1>4, <1>5 DEF EditsFramework, FrameworkUsable, Edits, Listed, Opens,
     FrameworkOpens, ReadsAll, ByTeam, ByCampus

LEMMA SightFollows == SightInv => SightSound
<1> SUFFICES ASSUME SightInv, resource # Nothing, NEW v \in Viewers \ Superusers
             PROVE  SightSound!2!(v)
  BY DEF SightSound
<1>1. (resource.scope = "team") <=> (resource.team # NoTeam)
  BY DEF SightInv, Resources
<1>2. CASE kind = "document"
  BY <1>1, <1>2, DocumentsSound
<1>3. CASE kind = "question"
  BY <1>1, <1>3, QuestionsSound
<1>4. CASE kind = "exam"
  BY <1>1, <1>4, ExamsSound
<1>5. CASE kind = "framework"
  BY <1>1, <1>5, FrameworksSound
<1> QED
  BY <1>2, <1>3, <1>4, <1>5 DEF SightInv

\* What is created or re-scoped by a request that passed OwnTeam is well-formed.
LEMMA ScopeChosen ==
    ASSUME SightInv, NEW v \in Viewers, NEW scope \in Scopes, NEW t \in Teams \cup {NoTeam},
           OwnTeam(v, scope, t)
    PROVE  scope = "team" <=> t # NoTeam
<1>1. \A a \in Accessible(v) : a \in Teams
  BY VisibilityAssumption DEF Accessible, SightInv, Rights
<1> QED
  BY <1>1, VisibilityAssumption DEF OwnTeam

LEMMA CreateKeeps ==
    ASSUME SightInv, NEW v \in Viewers, NEW scope \in Scopes, NEW t \in Teams \cup {NoTeam},
           NEW managed \in BOOLEAN,
           scope = "team" <=> t # NoTeam, Create(v, scope, t, managed)
    PROVE  SightInv'
<1>1. viewer[v].campus \in Campuses
  BY DEF SightInv, Rights
<1> QED
  BY <1>1 DEF Create, SightInv, Resources

LEMMA RescopeKeeps ==
    ASSUME SightInv, NEW v \in Viewers, NEW scope \in Scopes, NEW t \in Teams \cup {NoTeam},
           Rescope(v, scope, t)
    PROVE  SightInv'
<1>1. scope = "team" <=> t # NoTeam
  BY ScopeChosen DEF Rescope
<1>2. resource \in Resources
  BY DEF Rescope, SightInv
<1>3. resource' \in Resources
  BY <1>1, <1>2 DEF Rescope, Resources
<1> QED
  BY <1>3 DEF Rescope, SightInv

\* People change, and may take the resource to another institution.
LEMMA PeopleKeep ==
    ASSUME SightInv, NEW v \in Viewers,
           \/ \E t \in Teams : SetMembership(v, t)
           \/ \E all, manages \in BOOLEAN : SetRights(v, all, manages)
           \/ \E c \in Campuses, moves \in BOOLEAN : TransferUser(v, c, moves)
           \/ EraseOwner(v)
    PROVE  SightInv'
<1>1. viewer[v] \in Rights
  BY DEF SightInv
<1>2. viewer' \in [Viewers -> Rights]
  <2>1. ASSUME NEW t \in Teams, SetMembership(v, t) PROVE viewer' \in [Viewers -> Rights]
    BY <1>1, <2>1 DEF SetMembership, SightInv, Rights
  <2>2. ASSUME NEW all \in BOOLEAN, NEW manages \in BOOLEAN, SetRights(v, all, manages)
        PROVE  viewer' \in [Viewers -> Rights]
    BY <1>1, <2>2 DEF SetRights, SightInv, Rights
  <2>3. ASSUME NEW c \in Campuses, NEW moves \in BOOLEAN, TransferUser(v, c, moves)
        PROVE  viewer' \in [Viewers -> Rights]
    BY <1>1, <2>3 DEF TransferUser, SightInv, Rights
  <2>4. ASSUME EraseOwner(v) PROVE viewer' \in [Viewers -> Rights]
    BY <1>1, <2>4 DEF EraseOwner, SightInv, Rights
  <2> QED
    BY <2>1, <2>2, <2>3, <2>4
<1>3. resource' # Nothing => resource' \in Resources
  BY <1>1 DEF SetMembership, SetRights, TransferUser, EraseOwner, SightInv, Resources, Rights
<1>4. kind' = kind
  BY DEF SetMembership, SetRights, TransferUser, EraseOwner
<1> QED
  BY <1>2, <1>3, <1>4 DEF SightInv

LEMMA SightStep == SightInv /\ [SightNext]_sightVars => SightInv'
<1> SUFFICES ASSUME SightInv, SightNext PROVE SightInv'
  BY DEF SightInv, sightVars
<1>1. PICK v \in Viewers : SightNext!(v)
  BY DEF SightNext
<1>2. ASSUME NEW scope \in Scopes, NEW t \in Teams \cup {NoTeam},
             \/ UploadDocument(v, scope, t) \/ CreateExam(v, scope, t)
             \/ CreateFramework(v, scope, t)
      PROVE  SightInv'
  <2>1. scope = "team" <=> t # NoTeam
    BY <1>2, ScopeChosen DEF UploadDocument, CreateExam, CreateFramework
  <2>2. \E managed \in BOOLEAN : Create(v, scope, t, managed)
    BY <1>2, Zenon DEF UploadDocument, CreateExam, CreateFramework
  <2> QED
    BY <2>1, <2>2, CreateKeeps
<1>3. ASSUME NEW scope \in Scopes, NEW t \in Teams \cup {NoTeam},
             \/ RescopeDocument(v, scope, t) \/ RescopeQuestion(v, scope, t)
             \/ RescopeExam(v, scope, t) \/ RescopeFramework(v, scope, t)
      PROVE  SightInv'
  BY <1>3, RescopeKeeps
     DEF RescopeDocument, RescopeQuestion, RescopeExam, RescopeFramework
<1>4. CASE CreateQuestion(v)
  BY <1>4, CreateKeeps DEF CreateQuestion, Scopes
<1>5. CASE ArchiveFramework(v)
  BY <1>5 DEF ArchiveFramework, SightInv, Resources
<1>6. CASE DeleteDocument(v)
  BY <1>6 DEF DeleteDocument, SightInv
<1> QED
  BY <1>1, <1>2, <1>3, <1>4, <1>5, <1>6, PeopleKeep

\* However people are moved, promoted and erased, the eight copies of the rule agree
\* on who sees and who changes a resource, for any units, institutions and people.
THEOREM SightStaysSound == SightSpec => []SightSound
<1>1. SightInit => SightInv
  BY DEF SightInit, SightInv, Rights
<1> QED
  BY <1>1, SightStep, SightFollows, PTL DEF SightSpec

-----------------------------------------------------------------------------
(***************************************************************************)
(* Administration                                                          *)
(***************************************************************************)
AllRoles == SystemRoles \cup OwnRoles
PersonRow == [home : Homes, status : {"pending", "active", "suspended"}, roles : SUBSET AllRoles]
AdminTypes ==
    /\ clerks \subseteq Clerks
    /\ SystemRoles \subseteq roles /\ roles \subseteq AllRoles
    /\ person = [u \in People |-> person[u]] /\ desk = [c \in Clerks |-> desk[c]]
    /\ \A u \in Known : person[u] \in PersonRow

Alone == Cardinality(clerks) = 1
Led == \A h \in Homes \ (Shared \cup orphaned) : Members(h) # {} => Admins(h) # {}
RolesExist == \A u \in Known : person[u].roles \subseteq roles
RolesStay == Alone => \A u \in Known : person[u].roles # {}

\* What a request that has read but not committed may still count on: who becomes
\* a user of an institution without being its admin found one there, and with one
\* server process nobody has taken or given a role since.
Promise(c) == desk[c] # AtRest =>
    /\ c \in clerks /\ desk[c].what \in {"add", "strip", "drop"}
    /\ desk[c].what = "add" =>
          /\ desk[c].who \in People /\ desk[c].row \in PersonRow
          /\ desk[c].row.roles \subseteq SystemRoles /\ desk[c].row.roles # {}
          /\ desk[c].row.home \notin Shared \cup orphaned =>
                "admin" \in desk[c].row.roles \/ Admins(desk[c].row.home) # {}
    /\ desk[c].what = "strip" =>
          /\ desk[c].who \in People /\ desk[c].role \in AllRoles
          /\ Alone => /\ desk[c].who \in Known
                      /\ \E q \in person[desk[c].who].roles : q # desk[c].role
    /\ desk[c].what = "drop" =>
          /\ desk[c].role \in OwnRoles
          /\ Alone => \A u \in Known : desk[c].role \notin person[u].roles

AdminInv ==
    AdminTypes /\ Led /\ RolesExist /\ RolesStay /\ \A c \in Clerks : Promise(c)

\* Alone, a process that acts is the only one with a request.
LEMMA OnlyOne ==
    ASSUME AdminInv, Alone, NEW c \in clerks, NEW d \in Clerks, d # c
    PROVE  desk[d] = AtRest
<1>1. d \notin clerks
  BY AdministrationAssumption, SoleProcess DEF Alone, AdminInv, AdminTypes
<1> QED
  BY <1>1 DEF AdminInv, Promise

\* A step that leaves every admin where there is no orphaned institution, and
\* brings no member to one, keeps the institutions led and what was promised.
LEMMA LedStays ==
    ASSUME AdminInv, orphaned \subseteq orphaned',
           \A u \in Known' : person'[u].home \notin orphaned' =>
               u \in Known /\ person'[u].home = person[u].home,
           \A u \in Known : person[u].home \notin orphaned' /\ "admin" \in person[u].roles =>
               /\ u \in Known' /\ person'[u].home = person[u].home
               /\ "admin" \in person'[u].roles
    PROVE  /\ Led'
           /\ \A h \in Homes \ orphaned' : Admins(h) # {} => Admins(h)' # {}
<1>1. \A h \in Homes \ orphaned' : Admins(h) # {} => Admins(h)' # {}
  BY DEF Admins, Members
<1>2. \A h \in Homes \ orphaned' : Members(h)' # {} => Members(h) # {}
  BY DEF Members
<1> QED
  BY <1>1, <1>2 DEF AdminInv, Led

\* Only the desk changes: what is put there has to be promised.
LEMMA DeskStep ==
    ASSUME AdminInv, UNCHANGED <<clerks, person, roles, orphaned>>, NEW c \in Clerks,
           NEW next, Serves(c, next), Promise(c)'
    PROVE  AdminInv'
<1>1. desk' = [d \in Clerks |-> desk'[d]] /\ \A d \in Clerks \ {c} : desk'[d] = desk[d]
  BY DEF Serves, AdminInv, AdminTypes
<1>2. ASSUME NEW d \in Clerks \ {c} PROVE Promise(d)'
  BY <1>1, <1>2 DEF AdminInv, Promise, Known, Admins, Members, Alone
<1>3. (AdminTypes /\ Led /\ RolesExist /\ RolesStay)'
  BY <1>1 DEF AdminInv, AdminTypes, Led, RolesExist, RolesStay, Known, Admins, Members, Alone
<1> QED
  BY <1>2, <1>3 DEF AdminInv

LEMMA RowsAreSomebody == NoOne \notin PersonRow
  BY AdministrationAssumption DEF PersonRow, AllRoles, SystemRoles

LEMMA RegisterStep ==
    ASSUME AdminInv, NEW c \in Clerks, NEW u \in People, NEW h \in Homes,
           BeginRegister(c, u, h) \/ BeginOAuth(c, u, h)
    PROVE  AdminInv'
<1>1. PICK state \in {"pending", "active"}, plain \in {"dozent", "viewer"} :
         Serves(c, [what |-> "add", who |-> u,
                    row |-> [home |-> h, status |-> state,
                             roles |-> {IF First(h) /\ h \notin Shared
                                        THEN "admin" ELSE plain}]])
  BY DEF BeginRegister, BeginOAuth
<1>2. c \in clerks /\ UNCHANGED <<clerks, person, roles, orphaned>>
  BY DEF BeginRegister, BeginOAuth, Ready
<1> DEFINE next == desk'[c]
<1>3. /\ next.what = "add" /\ next.who = u /\ next.row \in PersonRow
      /\ next.row.roles = {IF First(h) /\ h \notin Shared THEN "admin" ELSE plain}
      /\ next.row.home = h
  BY <1>1 DEF Serves, AdminInv, AdminTypes, PersonRow, AllRoles, SystemRoles
<1>4. h \notin Shared \cup orphaned => First(h) \/ Admins(h) # {}
  BY DEF AdminInv, Led, First
<1>5. Promise(c)'
  BY <1>2, <1>3, <1>4 DEF Promise, Admins, Members, Known, SystemRoles
<1> QED
  BY <1>1, <1>2, <1>5, DeskStep

\* A new user is an admin, or the institution has one.
LEMMA AddStep ==
    ASSUME AdminInv, NEW c \in Clerks, AddUser(c)
    PROVE  AdminInv'
<1> DEFINE u == desk[c].who
           new == desk[c].row
<1>1. /\ desk[c] # AtRest /\ c \in clerks /\ u \in People /\ new \in PersonRow
      /\ new.roles \subseteq SystemRoles /\ new.roles # {}
      /\ new.home \notin Shared \cup orphaned => "admin" \in new.roles \/ Admins(new.home) # {}
  BY DEF AddUser, Does, AdminInv, Promise
<1>2. /\ desk' = [desk EXCEPT ![c] = AtRest] /\ UNCHANGED <<clerks, roles, orphaned>>
      /\ person' = IF person[u] = NoOne THEN [person EXCEPT ![u] = new] ELSE person
  BY DEF AddUser, Serves
<1>3. /\ \A d \in Clerks \ {c} : desk'[d] = desk[d]
      /\ desk'[c] = AtRest /\ desk' = [d \in Clerks |-> desk'[d]]
  BY <1>2 DEF AdminInv, AdminTypes
<1>4. /\ person' = [v \in People |-> person'[v]]
      /\ \A v \in Known : v \in Known' /\ person'[v] = person[v]
      /\ \A v \in Known' \ Known : v = u /\ person'[v] = new
  BY <1>1, <1>2 DEF AdminInv, AdminTypes, Known
<1>5. AdminTypes'
  BY <1>1, <1>2, <1>3, <1>4 DEF AdminInv, AdminTypes
<1>6. \A h \in Homes : Admins(h) # {} => Admins(h)' # {}
  BY <1>4 DEF Admins, Members
<1>7. Led'
  <2> SUFFICES ASSUME NEW h \in Homes \ (Shared \cup orphaned), NEW v \in Members(h)'
               PROVE  Admins(h)' # {}
    BY <1>2 DEF Led
  <2>1. CASE v \in Known
    BY <2>1, <1>4, <1>6 DEF Members, AdminInv, Led
  <2>2. CASE v \notin Known
    <3>1. v = u /\ person'[v] = new /\ new.home = h
      BY <2>2, <1>4 DEF Members
    <3>2. "admin" \in new.roles => v \in Admins(h)'
      BY <3>1 DEF Admins
    <3> QED
      BY <3>1, <3>2, <1>1, <1>6
  <2> QED
    BY <2>1, <2>2
<1>8. RolesExist' /\ RolesStay'
  BY <1>1, <1>2, <1>4 DEF AdminInv, AdminTypes, RolesExist, RolesStay, Alone
<1>9. ASSUME NEW d \in Clerks PROVE Promise(d)'
  <2>1. CASE d = c
    BY <2>1, <1>3 DEF Promise
  <2>2. CASE d # c
    <3>1. Alone => desk[d] = AtRest
      BY <2>2, <1>1, OnlyOne
    <3> QED
      BY <2>2, <3>1, <1>2, <1>3, <1>6 DEF AdminInv, Promise, Alone, PersonRow
  <2> QED
    BY <2>1, <2>2
<1> QED
  BY <1>5, <1>7, <1>8, <1>9 DEF AdminInv

\* A request in one go: with one server process nothing else is pending.
LEMMA PersonStep ==
    ASSUME AdminInv, NEW c \in Clerks, NEW u \in People, Ready(c), u \in Known,
           NEW state \in {"active", "suspended"}, NEW r \in AllRoles, NEW h \in Homes,
           \/ UpdateUserStatus(c, u, state) \/ AssignRole(c, u, r)
           \/ Transfer(c, u, h) \/ Erase(c, u)
    PROVE  AdminInv'
<1>1. UNCHANGED <<clerks, roles, desk>> /\ orphaned \subseteq orphaned'
  BY DEF UpdateUserStatus, AssignRole, Transfer, Erase
<1>2. person[u] \in PersonRow
  BY DEF AdminInv, AdminTypes
<1>3. /\ person' = [v \in People |-> person'[v]]
      /\ \A v \in People \ {u} : person'[v] = person[v]
  BY DEF UpdateUserStatus, AssignRole, Transfer, Erase, AdminInv, AdminTypes
<1>4. \/ person'[u] = NoOne /\ person[u].home \in orphaned'
      \/ /\ person'[u] \in PersonRow
         /\ person[u].roles \subseteq person'[u].roles /\ person'[u].roles \subseteq roles
         /\ \/ person'[u].home = person[u].home
            \/ {person[u].home, person'[u].home} \subseteq orphaned'
  <2>1. CASE UpdateUserStatus(c, u, state)
    BY <2>1, <1>2 DEF UpdateUserStatus, AdminInv, AdminTypes, PersonRow, RolesExist
  <2>2. CASE AssignRole(c, u, r)
    BY <2>2, <1>2 DEF AssignRole, AdminInv, AdminTypes, PersonRow, RolesExist
  <2>3. CASE Transfer(c, u, h)
    BY <2>3, <1>2 DEF Transfer, AdminInv, AdminTypes, PersonRow, RolesExist
  <2>4. CASE Erase(c, u)
    BY <2>4, <1>2 DEF Erase, AdminInv, AdminTypes
  <2> QED
    BY <2>1, <2>2, <2>3, <2>4
<1>5. AdminTypes'
  BY <1>1, <1>3, <1>4 DEF AdminInv, AdminTypes, Known
<1>6. /\ Led'
      /\ \A g \in Homes \ orphaned' : Admins(g) # {} => Admins(g)' # {}
  <2>1. \A v \in Known' : person'[v].home \notin orphaned' =>
            v \in Known /\ person'[v].home = person[v].home
    BY <1>3, <1>4 DEF Known
  <2>2. \A v \in Known : person[v].home \notin orphaned' /\ "admin" \in person[v].roles =>
            /\ v \in Known' /\ person'[v].home = person[v].home
            /\ "admin" \in person'[v].roles
    <3> SUFFICES ASSUME NEW v \in Known, person[v].home \notin orphaned',
                        "admin" \in person[v].roles
                 PROVE  /\ v \in Known' /\ person'[v].home = person[v].home
                        /\ "admin" \in person'[v].roles
      OBVIOUS
    <3>1. CASE v # u
      BY <3>1, <1>3 DEF Known
    <3>2. CASE v = u
      <4>1. person'[u] \in PersonRow
        BY <3>2, <1>4
      <4>2. u \in Known'
        BY <4>1, RowsAreSomebody DEF Known
      <4> QED
        BY <3>2, <4>2, <1>4 DEF Known
    <3> QED
      BY <3>1, <3>2
  <2> QED
    BY <1>1, <2>1, <2>2, LedStays
<1>7. RolesExist' /\ RolesStay'
  BY <1>1, <1>3, <1>4 DEF AdminInv, RolesExist, RolesStay, Known, Alone
<1>8. ASSUME NEW d \in Clerks PROVE Promise(d)'
  <2>1. Alone => desk[d] = AtRest
    BY OnlyOne DEF Ready
  <2> QED
    BY <2>1, <1>1, <1>6 DEF AdminInv, Promise, Alone, PersonRow
<1> QED
  BY <1>5, <1>6, <1>7, <1>8 DEF AdminInv

\* The last role is not taken, if nobody takes another one at the same time.
LEMMA StripStep ==
    ASSUME AdminInv, NEW c \in Clerks,
           \/ \E u \in People, r \in AllRoles : BeginRemoveRole(c, u, r)
           \/ RemoveRole(c)
    PROVE  AdminInv'
<1>1. ASSUME NEW u \in People, NEW r \in AllRoles, BeginRemoveRole(c, u, r)
      PROVE  AdminInv'
  <2>1. /\ c \in clerks /\ u \in Known /\ r \in person[u].roles
        /\ UNCHANGED <<clerks, person, roles, orphaned>>
        /\ Serves(c, [what |-> "strip", who |-> u, role |-> r])
    BY <1>1 DEF BeginRemoveRole, Ready
  <2>2. \E q \in person[u].roles : q # r
    <3>1. person[u].roles # {r}
      BY <1>1, FS_Singleton DEF BeginRemoveRole, LastRole
    <3> QED
      BY <2>1, <3>1
  <2>3. desk'[c] = [what |-> "strip", who |-> u, role |-> r]
    BY <2>1 DEF Serves, AdminInv, AdminTypes
  <2>4. Promise(c)'
    BY <2>1, <2>2, <2>3 DEF Promise, Known
  <2> QED
    BY <2>1, <2>4, DeskStep
<1>2. ASSUME RemoveRole(c) PROVE AdminInv'
  <2> DEFINE u == desk[c].who
             r == desk[c].role
  <2>1. /\ desk[c] # AtRest /\ c \in clerks /\ u \in People
        /\ Alone => u \in Known /\ \E q \in person[u].roles : q # r
    BY <1>2 DEF RemoveRole, Does, AdminInv, Promise
  <2>2. /\ \A d \in Clerks \ {c} : desk'[d] = desk[d]
        /\ desk'[c] = AtRest /\ desk' = [d \in Clerks |-> desk'[d]]
        /\ UNCHANGED <<clerks, roles>> /\ orphaned \subseteq orphaned'
    BY <1>2 DEF RemoveRole, Serves, AdminInv, AdminTypes
  <2>3. /\ person' = [v \in People |-> person'[v]]
        /\ \A v \in People \ {u} : person'[v] = person[v]
    BY <1>2 DEF RemoveRole, AdminInv, AdminTypes
  <2>4. u \in Known =>
            /\ person'[u] \in PersonRow /\ person'[u].home = person[u].home
            /\ person'[u].roles = person[u].roles \ {r}
            /\ r = "admin" /\ r \in person[u].roles => person[u].home \in orphaned'
    <3> SUFFICES ASSUME u \in Known PROVE <2>4!2
      OBVIOUS
    <3>1. person[u] \in PersonRow
      BY DEF AdminInv, AdminTypes
    <3>2. CASE r \in person[u].roles
      <4>1. /\ person' = [person EXCEPT ![u].roles = @ \ {r}]
            /\ r = "admin" => person[u].home \in orphaned'
        BY <1>2, <3>2 DEF RemoveRole
      <4> QED
        BY <2>1, <3>1, <4>1 DEF AdminInv, AdminTypes, PersonRow
    <3>3. CASE r \notin person[u].roles
      <4>1. person' = person
        BY <1>2, <3>3 DEF RemoveRole
      <4> QED
        BY <3>1, <3>3, <4>1
    <3> QED
      BY <3>2, <3>3
  <2>5. u \notin Known => person' = person
    BY <1>2 DEF RemoveRole
  <2>6. \A v \in Known' : v \in Known /\ person'[v].home = person[v].home
    BY <2>1, <2>3, <2>4, <2>5 DEF Known
  <2>7. u \in Known => u \in Known'
    BY <2>4, RowsAreSomebody DEF Known
  <2>8. AdminTypes'
    BY <2>2, <2>3, <2>4, <2>5, <2>6 DEF AdminInv, AdminTypes, Known
  <2>9. /\ Led'
        /\ \A g \in Homes \ orphaned' : Admins(g) # {} => Admins(g)' # {}
    <3>1. \A v \in Known : person[v].home \notin orphaned' /\ "admin" \in person[v].roles =>
              /\ v \in Known' /\ person'[v].home = person[v].home
              /\ "admin" \in person'[v].roles
      BY <2>3, <2>4, <2>7 DEF Known
    <3> QED
      BY <2>2, <2>6, <3>1, LedStays
  <2>10. RolesExist' /\ RolesStay'
    BY <2>1, <2>2, <2>3, <2>4, <2>5, <2>6 DEF AdminInv, RolesExist, RolesStay, Known, Alone
  <2>11. ASSUME NEW d \in Clerks PROVE Promise(d)'
    <3>1. CASE d = c
      BY <3>1, <2>2 DEF Promise
    <3>2. CASE d # c
      <4>1. Alone => desk[d] = AtRest
        BY <3>2, <2>1, OnlyOne
      <4> QED
        BY <3>2, <4>1, <2>2, <2>9 DEF AdminInv, Promise, Alone, PersonRow
    <3> QED
      BY <3>1, <3>2
  <2> QED
    BY <2>8, <2>9, <2>10, <2>11 DEF AdminInv
<1> QED
  BY <1>1, <1>2

\* A role goes, and with it, by cascade, whoever's role it is; never an admin's.
LEMMA DropStep ==
    ASSUME AdminInv, NEW c \in Clerks,
           (\E r \in OwnRoles : BeginDeleteRole(c, r)) \/ DeleteRole(c)
    PROVE  AdminInv'
<1>1. ASSUME NEW r \in OwnRoles, BeginDeleteRole(c, r) PROVE AdminInv'
  <2>1. /\ c \in clerks /\ \A u \in Known : r \notin person[u].roles
        /\ UNCHANGED <<clerks, person, roles, orphaned>>
        /\ Serves(c, [what |-> "drop", role |-> r])
    BY <1>1 DEF BeginDeleteRole, Ready
  <2>2. desk'[c] = [what |-> "drop", role |-> r]
    BY <2>1 DEF Serves, AdminInv, AdminTypes
  <2>3. Promise(c)'
    BY <2>1, <2>2 DEF Promise, Known
  <2> QED
    BY <2>1, <2>3, DeskStep
<1>2. ASSUME DeleteRole(c) PROVE AdminInv'
  <2> DEFINE r == desk[c].role
  <2>1. /\ desk[c] # AtRest /\ c \in clerks /\ r \in OwnRoles /\ r \notin SystemRoles
        /\ Alone => \A u \in Known : r \notin person[u].roles
    BY <1>2, AdministrationAssumption DEF DeleteRole, Does, AdminInv, Promise, SystemRoles
  <2>2. /\ \A d \in Clerks \ {c} : desk'[d] = desk[d]
        /\ desk'[c] = AtRest /\ desk' = [d \in Clerks |-> desk'[d]]
        /\ UNCHANGED <<clerks, orphaned>> /\ roles' = roles \ {r}
    BY <1>2 DEF DeleteRole, Serves, AdminInv, AdminTypes
  <2>3. person' = [v \in People |-> IF person[v] = NoOne THEN NoOne
                                    ELSE [person[v] EXCEPT !.roles = @ \ {r}]]
    BY <1>2 DEF DeleteRole
  <2>4. \A v \in Known : /\ person'[v] \in PersonRow /\ person'[v].home = person[v].home
                         /\ person'[v].roles = person[v].roles \ {r}
    BY <2>3 DEF AdminInv, AdminTypes, PersonRow, Known
  <2>5. \A v \in People \ Known : person'[v] = NoOne
    BY <2>3 DEF Known
  <2>6. AdminTypes'
    BY <2>1, <2>2, <2>3, <2>4, <2>5 DEF AdminInv, AdminTypes, Known
  <2>7. /\ Led'
        /\ \A g \in Homes \ orphaned' : Admins(g) # {} => Admins(g)' # {}
    <3>1. \A v \in Known' : v \in Known
      BY <2>5 DEF Known
    <3>2. \A v \in Known : "admin" \in person[v].roles =>
              v \in Known' /\ "admin" \in person'[v].roles
      <4> SUFFICES ASSUME NEW v \in Known, "admin" \in person[v].roles, person'[v] = NoOne
                   PROVE  FALSE
        BY <2>1, <2>4 DEF Known, SystemRoles
      <4> QED
        BY <2>4, RowsAreSomebody
    <3> QED
      BY <2>2, <2>4, <3>1, <3>2, LedStays
  <2>8. RolesExist' /\ RolesStay'
    BY <2>1, <2>2, <2>4, <2>5 DEF AdminInv, RolesExist, RolesStay, Known, Alone
  <2>9. ASSUME NEW d \in Clerks PROVE Promise(d)'
    <3>1. CASE d = c
      BY <3>1, <2>2 DEF Promise
    <3>2. CASE d # c
      <4>1. Alone => desk[d] = AtRest
        BY <3>2, <2>1, OnlyOne
      <4> QED
        BY <3>2, <4>1, <2>2, <2>7 DEF AdminInv, Promise, Alone, PersonRow
    <3> QED
      BY <3>1, <3>2
  <2> QED
    BY <2>6, <2>7, <2>8, <2>9 DEF AdminInv
<1> QED
  BY <1>1, <1>2

LEMMA AdminStep == AdminInv /\ [AdminNext]_adminVars => AdminInv'
<1>1. ASSUME AdminInv, UNCHANGED adminVars PROVE AdminInv'
  BY <1>1 DEF adminVars, AdminInv, AdminTypes, Led, RolesExist, RolesStay, Promise, Alone,
     Known, Members, Admins
<1>2. ASSUME AdminInv, NEW c \in Clerks, NEW r \in OwnRoles, CreateRole(c, r)
      PROVE  AdminInv'
  <2>1. UNCHANGED <<clerks, person, desk, orphaned>> /\ roles' = roles \cup {r}
    BY <1>2 DEF CreateRole
  <2>2. (AdminTypes /\ RolesExist)'
    BY <1>2, <2>1 DEF AdminInv, AdminTypes, RolesExist, Known, AllRoles
  <2>3. (Led /\ RolesStay)'
    BY <1>2, <2>1 DEF AdminInv, Led, RolesStay, Known, Members, Admins, Alone
  <2>4. ASSUME NEW d \in Clerks PROVE Promise(d)'
    BY <1>2, <2>1 DEF AdminInv, Promise, Known, Members, Admins, Alone
  <2> QED
    BY <2>2, <2>3, <2>4 DEF AdminInv
<1>3. ASSUME AdminInv, NEW c \in Clerks, NEW u \in People,
             \/ \E state \in {"active", "suspended"} : UpdateUserStatus(c, u, state)
             \/ \E r \in AllRoles : AssignRole(c, u, r)
             \/ \E h \in Homes : Transfer(c, u, h)
             \/ Erase(c, u)
      PROVE  AdminInv'
  <2>1. Ready(c) /\ u \in Known
    BY <1>3 DEF UpdateUserStatus, AssignRole, Transfer, Erase
  <2>2. "admin" \in AllRoles /\ Homes # {}
    BY <2>1, <1>3 DEF AllRoles, SystemRoles, AdminInv, AdminTypes, PersonRow
  <2> QED
    BY <1>3, <2>1, <2>2, PersonStep
<1> QED
  BY <1>1, <1>2, <1>3, RegisterStep, AddStep, StripStep, DropStep DEF AdminNext, AllRoles

\* Whoever registers, is moved or erased at the same time, for any number of server
\* processes: an institution that lost no admin has one, nobody holds a role that
\* is gone; and with one server process nobody is left without a role.
THEOREM RolesStayHeld == AdminSpec => []RolesHeld
<1>1. AdminInit => AdminInv
  BY DEF AdminInit, AdminInv, AdminTypes, Led, RolesExist, RolesStay, Promise, Known,
     Members, Admins, AllRoles
<1>2. AdminInv => RolesHeld
  BY DEF AdminInv, Led, RolesExist, RolesStay, Alone, RolesHeld
<1> QED
  BY <1>1, <1>2, AdminStep, PTL DEF AdminSpec

-----------------------------------------------------------------------------
(***************************************************************************)
(* Mail events                                                             *)
(***************************************************************************)
MailTypes ==
    /\ mailers \subseteq Mailers /\ answered \subseteq MailEvent
    /\ recorded \in [MailEvent -> Nat]
    /\ suppressed = [a \in Addresses |-> suppressed[a]]
    /\ serving = [s \in Mailers |-> serving[s]]

\* What a handler has read stays true; with one process it is also all there is.
Handled(s) == serving[s] # NotServing =>
    /\ s \in mailers /\ serving[s].event \in MailEvent
    /\ serving[s].known => Recorded(serving[s].event)
    /\ Cardinality(mailers) = 1 /\ Recorded(serving[s].event) => serving[s].known

Of(a) == {e \in MailEvent : e.address = a /\ recorded[e] > 0}
Listing == \A a \in Addresses : suppressed[a] = UNION {Suppresses(e) : e \in Of(a)}

MailInv ==
    /\ MailTypes /\ Listing
    /\ \A e \in answered : recorded[e] > 0 \/ Recorded(e)
    /\ Cardinality(mailers) = 1 => \A e \in MailEvent : e.mail # NoMail => recorded[e] <= 1
    /\ \A s \in Mailers : Handled(s)

LEMMA ReceiveStep ==
    ASSUME MailInv, NEW s \in Mailers, NEW e \in MailEvent, Receive(s, e)
    PROVE  MailInv'
<1>1. /\ s \in mailers /\ UNCHANGED <<mailers, answered, recorded, suppressed>>
      /\ serving' = [r \in Mailers |-> serving'[r]]
      /\ \A r \in Mailers \ {s} : serving'[r] = serving[r]
      /\ serving'[s].event = e /\ (serving'[s].known <=> Recorded(e))
  BY DEF Receive, MailInv, MailTypes
<1>2. ASSUME NEW r \in Mailers PROVE Handled(r)'
  BY <1>1 DEF MailInv, Handled, Recorded
<1> QED
  BY <1>1, <1>2 DEF MailInv, MailTypes, Listing, Of, Recorded

\* Ignored or failed: nothing is written but the answer.
LEMMA AnswerStep ==
    ASSUME MailInv, NEW s \in Mailers, Ignore(s) \/ Fail(s)
    PROVE  MailInv'
<1>1. /\ UNCHANGED <<mailers, recorded, suppressed>>
      /\ serving' = [r \in Mailers |-> serving'[r]] /\ serving'[s] = NotServing
      /\ \A r \in Mailers \ {s} : serving'[r] = serving[r]
  BY DEF Ignore, Fail, Done, MailInv, MailTypes
<1>2. ASSUME NEW r \in Mailers PROVE Handled(r)'
  BY <1>1 DEF MailInv, Handled, Recorded
<1>3. \/ answered' = answered
      \/ /\ answered' = answered \cup {serving[s].event}
         /\ serving[s].event \in MailEvent /\ Recorded(serving[s].event)
  BY DEF Ignore, Fail, Answer, Acknowledged, Takes, MailInv, Handled
<1> QED
  BY <1>1, <1>2, <1>3 DEF MailInv, MailTypes, Listing, Of, Recorded

\* The row and the address it suppresses are written together.
LEMMA RecordStep ==
    ASSUME MailInv, NEW s \in Mailers, Record(s)
    PROVE  MailInv'
<1> DEFINE e == serving[s].event
<1>1. e \in MailEvent /\ s \in mailers /\ ~serving[s].known /\ serving[s] # NotServing
  BY DEF Record, Takes, MailInv, Handled
<1>2. /\ UNCHANGED mailers /\ recorded' = [recorded EXCEPT ![e] = @ + 1]
      /\ serving' = [r \in Mailers |-> serving'[r]] /\ serving'[s] = NotServing
      /\ \A r \in Mailers \ {s} : serving'[r] = serving[r]
      /\ answered' \in {answered, answered \cup {e}}
  BY DEF Record, Done, Answer, MailInv, MailTypes
<1>3. /\ recorded' \in [MailEvent -> Nat] /\ recorded'[e] = recorded[e] + 1
      /\ \A f \in MailEvent \ {e} : recorded'[f] = recorded[f]
  BY <1>1, <1>2 DEF MailInv, MailTypes
<1>4. \A f \in MailEvent : Recorded(f) => Recorded(f)'
  BY <1>3 DEF Recorded, MailInv, MailTypes
<1>5. \A f \in answered' : recorded'[f] > 0 \/ Recorded(f)'
  BY <1>2, <1>3, <1>4 DEF MailInv, MailTypes
<1>6. ASSUME Cardinality(mailers) = 1, NEW f \in MailEvent, f.mail # NoMail
      PROVE  recorded'[f] <= 1
  <2>1. CASE f = e
    <3>1. ~Recorded(e)
      BY <1>1, <1>6 DEF MailInv, Handled
    <3>2. recorded[e] = 0
      BY <3>1, <2>1, <1>1, <1>6 DEF Recorded, MailInv, MailTypes
    <3> QED
      BY <2>1, <3>2, <1>3
  <2>2. CASE f # e
    BY <2>2, <1>3, <1>6 DEF MailInv
  <2> QED
    BY <2>1, <2>2
<1>7. ASSUME NEW r \in Mailers PROVE Handled(r)'
  <2>1. CASE r = s
    BY <2>1, <1>2 DEF Handled
  <2>2. CASE r # s
    <3>1. Cardinality(mailers) = 1 => serving[r] = NotServing
      BY <2>2, <1>1, MailAssumption, SoleProcess DEF MailInv, MailTypes, Handled
    <3> QED
      BY <2>2, <3>1, <1>2, <1>4 DEF MailInv, Handled
  <2> QED
    BY <2>1, <2>2
<1>8. Listing' /\ suppressed' = [a \in Addresses |-> suppressed'[a]]
  <2>1. Suppresses(e) # {} => e.address \in Addresses
    BY <1>1 DEF Suppresses, Addresses
  <2>2. \A a \in Addresses : Of(a)' = IF e.address = a THEN Of(a) \cup {e} ELSE Of(a)
    BY <1>1, <1>3 DEF Of, MailInv, MailTypes
  <2>3. /\ suppressed' = [a \in Addresses |-> suppressed'[a]]
        /\ \A a \in Addresses : suppressed'[a] =
              IF e.address = a THEN suppressed[a] \cup Suppresses(e) ELSE suppressed[a]
    BY <2>1 DEF Record, MailInv, MailTypes
  <2>4. ASSUME NEW a \in Addresses
        PROVE  suppressed'[a] = UNION {Suppresses(f) : f \in Of(a)'}
    <3>1. suppressed[a] = UNION {Suppresses(f) : f \in Of(a)}
      BY DEF MailInv, Listing
    <3>2. CASE e.address = a
      BY <3>1, <3>2, <2>2, <2>3
    <3>3. CASE e.address # a
      BY <3>1, <3>3, <2>2, <2>3
    <3> QED
      BY <3>2, <3>3
  <2> QED
    BY <2>3, <2>4 DEF Listing
<1> QED
  BY <1>1, <1>2, <1>3, <1>5, <1>6, <1>7, <1>8 DEF MailInv, MailTypes

\* For any number of events, processes, failures and deliveries in any order: what
\* was answered is recorded, and the list of suppressed addresses follows from
\* the recorded events.
THEOREM SuppressionAlwaysFollows == MailSpec => []SuppressionFollowsEvents
<1>1. MailInit => MailInv
  <2> SUFFICES ASSUME MailInit PROVE MailInv
    OBVIOUS
  <2>1. \A a \in Addresses : Of(a) = {}
    BY DEF Of, MailInit
  <2> QED
    BY <2>1 DEF MailInit, MailInv, MailTypes, Listing, Handled
<1>2. MailInv /\ [MailNext]_mailVars => MailInv'
  <2>1. ASSUME MailInv, UNCHANGED mailVars PROVE MailInv'
    BY <2>1 DEF mailVars, MailInv, MailTypes, Listing, Of, Handled, Recorded
  <2> QED
    BY <2>1, ReceiveStep, AnswerStep, RecordStep DEF MailNext
<1>3. MailInv => SuppressionFollowsEvents
  <2> SUFFICES ASSUME MailInv PROVE SuppressionFollowsEvents
    OBVIOUS
  <2>1. DOMAIN suppressed = Addresses
    BY DEF MailInv, MailTypes
  <2> QED
    BY <2>1 DEF MailInv, Listing, Of, SuppressionFollowsEvents
<1> QED
  BY <1>1, <1>2, <1>3, PTL DEF MailSpec

-----------------------------------------------------------------------------
(***************************************************************************)
(* Sign-in                                                                 *)
(***************************************************************************)
AccountRow ==
    [status : {"none", "pending", "active", "suspended"}, password : {"none", "known", "new"},
     verified : BOOLEAN, failed : Nat, linked : BOOLEAN]

\* Verification letters: the newest one is open, and none without an account.
Lettered ==
    /\ account \in AccountRow
    /\ account.status = "none" => account = NoAccount /\ Open(letter) = {}
    /\ letter \in [Letters -> {"none", "open", "used"}]
    /\ \A m, n \in Open(letter) : m = n

\* Reset links: a claim uses one up; with one server process one is open at most,
\* and the cap of an hour is kept.
OneDoor == Cardinality(doors) = 1
Sent == {l \in recent : link[l] # "discarded"}
Linked ==
    /\ link \in [Links -> {"none", "open", "used", "discarded"}]
    /\ claims \in [Links -> Nat] /\ recent \subseteq Links /\ IsFiniteSet(recent)
    /\ \A l \in Links : claims[l] = 0 \/ (claims[l] = 1 /\ link[l] = "used")
    /\ OneDoor => /\ \A l, k \in Open(link) : l = k
                  /\ Cardinality(Sent) <= MaxRequests

\* A request for a link has, if it is alone, read all open links, and there is
\* room for one more.
Requested(v) == request[v] # Nobody =>
    /\ v \in doors
    /\ request[v].kind = "confirm" => request[v].link \in Links /\ account.status # "none"
    /\ request[v].kind = "request" /\ OneDoor =>
          /\ Open(link) \subseteq request[v].burn
          /\ Cardinality(Sent) < MaxRequests

SignInv ==
    /\ doors \subseteq Doors /\ doors # {}
    /\ device = [s \in Devices |-> device[s]] /\ request = [v \in Doors |-> request[v]]
    /\ Lettered /\ Linked /\ \A v \in Doors : Requested(v)

\* Other requests rest if there is one server process and it acts.
LEMMA OthersRest ==
    ASSUME SignInv, OneDoor, NEW v \in doors, NEW w \in Doors, w # v
    PROVE  request[w] = Nobody
  BY SignInAssumption, SoleProcess DEF SignInv, OneDoor, Requested

\* Whatever opens no link and sends none keeps what the requests rely on.
LEMMA RequestsKept ==
    ASSUME SignInv, UNCHANGED doors, Open(link)' \subseteq Open(link), Sent' \subseteq Sent,
           account.status # "none" => account'.status # "none",
           NEW v \in Doors, v \in doors, NEW next,
           request' = request \/ Do(v, next),
           next = Nobody \/ next.kind \in {"tokens", "refresh", "revoke"}
    PROVE  /\ request' = [w \in Doors |-> request'[w]]
           /\ \A w \in Doors : Requested(w)'
<1>1. /\ request' = [w \in Doors |-> request'[w]]
      /\ \A w \in Doors : request'[w] = request[w] \/ (w = v /\ request'[w] = next)
  BY DEF Do, SignInv
<1>2. IsFiniteSet(Sent)
  BY FS_Subset DEF SignInv, Linked, Sent
<1>3. Cardinality(Sent)' <= Cardinality(Sent) /\ Cardinality(Sent)' \in Nat
      /\ Cardinality(Sent) \in Nat
  BY <1>2, FS_Subset, FS_CardinalityType
<1> QED
  BY <1>1, <1>3, SignInAssumption DEF SignInv, Requested, OneDoor

LEMMA LettersStep ==
    ASSUME SignInv, NEW v \in Doors,
           \/ Register(v) \/ Login(v) \/ OAuthCallback(v) \/ ChangePassword(v)
           \/ \E m \in Letters : VerifyEmail(m)
           \/ \E state \in {"active", "suspended"} : SetStatus(state)
           \/ ResendVerification \/ LoginFails \/ SetPassword
    PROVE  Lettered' /\ account'.status # "none"
<1>1. account \in AccountRow /\ NoAccount \in AccountRow
      /\ (account # NoAccount => account.status # "none")
  BY DEF SignInv, Lettered, AccountRow, NoAccount
<1>2. ASSUME letter' = letter, account' \in AccountRow, account'.status # "none"
      PROVE  Lettered' /\ account'.status # "none"
  BY <1>2 DEF SignInv, Lettered, Open
<1>3. CASE Login(v) \/ ChangePassword(v) \/ SetPassword
  <2>1. account' \in AccountRow /\ account'.status = "active" /\ letter' = letter
    BY <1>1, <1>3 DEF Login, ChangePassword, SetPassword, AccountRow
  <2> QED
    BY <1>2, <2>1
<1>4. CASE OAuthCallback(v) \/ LoginFails \/ \E state \in {"active", "suspended"} : SetStatus(state)
  <2>1. account' \in AccountRow /\ account'.status # "none" /\ letter' = letter
    <3>1. CASE OAuthCallback(v)
      BY <1>1, <3>1 DEF OAuthCallback, AccountRow, NoAccount
    <3>2. CASE LoginFails
      <4>1. account.failed \in Nat
        BY <1>1 DEF AccountRow
      <4>2. PICK n \in Nat : account' = [account EXCEPT !.failed = n]
        BY <3>2, <4>1, SignInAssumption DEF LoginFails
      <4> QED
        BY <1>1, <3>2, <4>2 DEF LoginFails, AccountRow
    <3>3. CASE \E state \in {"active", "suspended"} : SetStatus(state)
      BY <1>1, <3>3 DEF SetStatus, AccountRow
    <3> QED
      BY <1>4, <3>1, <3>2, <3>3
  <2> QED
    BY <1>2, <2>1
<1>5. ASSUME NEW m \in Letters, VerifyEmail(m) PROVE Lettered' /\ account'.status # "none"
  <2>1. account' \in AccountRow /\ account'.status = "active"
    BY <1>1, <1>5 DEF VerifyEmail, AccountRow
  <2> QED
    BY <1>5, <2>1 DEF VerifyEmail, SignInv, Lettered, Open
<1>6. CASE Register(v)
  <2>1. account' \in AccountRow /\ account'.status = "pending"
    BY <1>6 DEF Register, AccountRow, NoAccount
  <2>2. Open(letter) = {}
    BY <1>6 DEF Register, NoAccount, SignInv, Lettered
  <2> QED
    BY <1>6, <2>1, <2>2 DEF Register, SignInv, Lettered, Open
<1>7. CASE ResendVerification
  <2>1. account' = account /\ account.status # "none"
    BY <1>1, <1>7 DEF ResendVerification
  <2>2. PICK m \in Letters : letter' = [AllUsed(letter) EXCEPT ![m] = "open"]
    BY <1>7 DEF ResendVerification
  <2>3. /\ letter' \in [Letters -> {"none", "open", "used"}]
        /\ \A n \in Letters \ {m} : letter'[n] # "open"
    BY <2>2 DEF AllUsed, SignInv, Lettered
  <2> QED
    BY <1>1, <2>1, <2>3 DEF SignInv, Lettered, Open
<1> QED
  BY <1>3, <1>4, <1>5, <1>6, <1>7

\* Accounts, letters and sessions: the links are not touched.
LEMMA QuietStep ==
    ASSUME SignInv, NEW v \in Doors,
           \/ Register(v) \/ Login(v) \/ OAuthCallback(v) \/ ChangePassword(v)
           \/ CreateTokens(v) \/ Refresh(v) \/ BeginLogout(v) \/ RevokeAll(v) \/ RevokeFails(v)
           \/ \E s \in Devices : BeginRefresh(v, s) \/ ExchangeOAuthCode(s)
           \/ \E m \in Letters : VerifyEmail(m)
           \/ \E state \in {"active", "suspended"} : SetStatus(state)
           \/ ResendVerification \/ LoginFails \/ SetPassword
    PROVE  SignInv'
<1>1. UNCHANGED <<doors, link, recent, claims>>
  BY DEF Register, Login, OAuthCallback, ChangePassword, CreateTokens, Refresh, BeginLogout,
     RevokeAll, RevokeFails, BeginRefresh, ExchangeOAuthCode, VerifyEmail, SetStatus,
     ResendVerification, LoginFails, SetPassword
<1>2. device' = [s \in Devices |-> device'[s]]
  BY DEF SignInv, Register, Login, OAuthCallback, ChangePassword, CreateTokens, Refresh,
     BeginLogout, RevokeAll, RevokeFails, BeginRefresh, ExchangeOAuthCode, VerifyEmail,
     SetStatus, ResendVerification, LoginFails, SetPassword
<1>3. Lettered' /\ (account.status # "none" => account'.status # "none")
  <2>1. CASE UNCHANGED <<account, letter>>
    BY <2>1 DEF SignInv, Lettered, Open
  <2>2. CASE ~UNCHANGED <<account, letter>>
    BY <2>2, LettersStep DEF CreateTokens, Refresh, BeginLogout, RevokeAll, RevokeFails,
       BeginRefresh, ExchangeOAuthCode
  <2> QED
    BY <2>1, <2>2
<1>4. Linked'
  BY <1>1 DEF SignInv, Linked, OneDoor, Sent, Open
<1>5. \/ request' = request
      \/ v \in doors /\ \E next : /\ Do(v, next)
                                  /\ next = Nobody \/ next.kind \in {"tokens", "refresh", "revoke"}
  <2>1. CASE Register(v) \/ Login(v) \/ ChangePassword(v) \/ BeginLogout(v)
    BY <2>1 DEF Register, Login, ChangePassword, BeginLogout, Free
  <2>5. CASE OAuthCallback(v)
    <3>1. v \in doors /\ Do(v, [kind |-> "tokens", code |-> TRUE])
      BY <2>5, Zenon DEF OAuthCallback, Free
    <3> QED
      BY <3>1
  <2>2. CASE CreateTokens(v) \/ Refresh(v) \/ RevokeAll(v) \/ RevokeFails(v)
    BY <2>2 DEF CreateTokens, Refresh, RevokeAll, RevokeFails, Doing, SignInv, Requested
  <2>3. CASE \E s \in Devices : BeginRefresh(v, s) \/ ExchangeOAuthCode(s)
    BY <2>3 DEF BeginRefresh, ExchangeOAuthCode, Free
  <2>4. CASE \/ \E m \in Letters : VerifyEmail(m)
             \/ \E state \in {"active", "suspended"} : SetStatus(state)
             \/ ResendVerification \/ LoginFails \/ SetPassword
    BY <2>4 DEF VerifyEmail, SetStatus, ResendVerification, LoginFails, SetPassword
  <2> QED
    BY <2>1, <2>2, <2>3, <2>4, <2>5
<1>6. /\ request' = [w \in Doors |-> request'[w]]
      /\ \A w \in Doors : Requested(w)'
  <2>1. Open(link)' = Open(link) /\ Sent' = Sent
    BY <1>1 DEF Open, Sent
  <2>2. CASE request' = request
    BY <2>1, <2>2, <1>1, <1>3 DEF SignInv, Requested, OneDoor
  <2>3. CASE request' # request
    BY <2>1, <2>3, <1>1, <1>3, <1>5, RequestsKept
  <2> QED
    BY <2>2, <2>3
<1> QED
  BY <1>1, <1>2, <1>3, <1>4, <1>6 DEF SignInv

\* A link is discarded before it is claimed, or expires.
LEMMA LinkEnds ==
    ASSUME SignInv, NEW l \in Links, DiscardLink(l) \/ HourPasses(l)
    PROVE  SignInv'
<1>1. UNCHANGED <<doors, account, device, letter, request, claims>> /\ recent' \subseteq recent
  BY DEF DiscardLink, HourPasses
<1>2. /\ link' \in [Links -> {"none", "open", "used", "discarded"}]
      /\ \A k \in Links : \/ link'[k] = link[k]
                          \/ link'[k] = "discarded" /\ claims[k] = 0
  BY DEF DiscardLink, HourPasses, SignInv, Linked
<1>3. Open(link)' \subseteq Open(link) /\ Sent' \subseteq Sent
  BY <1>1, <1>2 DEF Open, Sent, SignInv, Linked
<1>4. IsFiniteSet(recent') /\ IsFiniteSet(Sent)
  BY <1>1, FS_Subset DEF SignInv, Linked, Sent
<1>5. Cardinality(Sent)' <= Cardinality(Sent) /\ Cardinality(Sent)' \in Nat
      /\ Cardinality(Sent) \in Nat
  BY <1>3, <1>4, FS_Subset, FS_CardinalityType
<1>6. Linked'
  BY <1>1, <1>2, <1>3, <1>4, <1>5, SignInAssumption DEF SignInv, Linked, OneDoor
<1>7. \A v \in Doors : Requested(v)'
  BY <1>1, <1>3, <1>5, SignInAssumption DEF SignInv, Requested, OneDoor
<1> QED
  BY <1>1, <1>6, <1>7 DEF SignInv, Lettered, Open

LEMMA ResetBegins ==
    ASSUME SignInv, NEW v \in Doors,
           BeginRequestReset(v) \/ \E l \in Links : BeginConfirmReset(v, l)
    PROVE  SignInv'
<1>1. /\ UNCHANGED <<doors, account, device, link, recent, letter, claims>> /\ v \in doors
      /\ request' = [w \in Doors |-> request'[w]]
      /\ \A w \in Doors \ {v} : request'[w] = request[w]
      /\ \/ request'[v].kind = "request" /\ request'[v].burn = Open(link)
            /\ Cardinality(Sent) < MaxRequests
         \/ request'[v].kind = "confirm" /\ request'[v].link \in Links
            /\ account.status # "none"
  BY DEF BeginRequestReset, BeginConfirmReset, CanReset, Do, Free, Sent, SignInv
<1>2. Open(link)' = Open(link) /\ Sent' = Sent
  BY <1>1 DEF Open, Sent
<1>3. \A w \in Doors : Requested(w)'
  BY <1>1, <1>2 DEF SignInv, Requested, OneDoor
<1> QED
  BY <1>1, <1>2, <1>3 DEF SignInv, Lettered, Linked, OneDoor, Sent, Open

\* The new link is the only open one, unless another process sent one meanwhile.
LEMMA ResetSent ==
    ASSUME SignInv, NEW v \in Doors, RequestReset(v)
    PROVE  SignInv'
<1>1. PICK l \in Links :
         /\ link[l] = "none"
         /\ link' = [k \in Links |-> CASE k = l -> "open"
                                       [] k \in request[v].burn /\ link[k] = "open" -> "used"
                                       [] OTHER -> link[k]]
         /\ recent' = recent \cup {l}
  BY DEF RequestReset
<1>2. /\ UNCHANGED <<doors, account, device, letter, claims>> /\ v \in doors
      /\ request' = [w \in Doors |-> request'[w]] /\ request'[v] = Nobody
      /\ \A w \in Doors \ {v} : request'[w] = request[w]
  BY DEF RequestReset, Do, Doing, SignInv, Requested
<1>3. /\ link'[l] = "open"
      /\ \A k \in Links \ {l} : \/ link'[k] = link[k] /\ ~(k \in request[v].burn /\ link[k] = "open")
                                \/ link'[k] = "used" /\ link[k] = "open"
  BY <1>1
<1>4. link' \in [Links -> {"none", "open", "used", "discarded"}]
  BY <1>1, <1>3 DEF SignInv, Linked
<1>5. IsFiniteSet(recent') /\ recent' \subseteq Links /\ IsFiniteSet(Sent)
  BY <1>1, FS_AddElement, FS_Subset DEF SignInv, Linked, Sent
<1>6. OneDoor => Open(link)' = {l}
  BY <1>1, <1>3, <1>4 DEF RequestReset, Doing, SignInv, Requested, Linked, Open
<1>7. OneDoor => Cardinality(Sent)' <= MaxRequests
  <2> SUFFICES ASSUME OneDoor PROVE Cardinality(Sent)' <= MaxRequests
    OBVIOUS
  <2>1. Sent' = Sent \cup {l}
    BY <1>1, <1>3, <1>4 DEF Sent, SignInv, Linked
  <2>2. Cardinality(Sent) < MaxRequests
    BY DEF RequestReset, Doing, SignInv, Requested
  <2>3. Cardinality(Sent) \in Nat /\ Cardinality(Sent \cup {l}) <= Cardinality(Sent) + 1
    <3>1. Cardinality(Sent) \in Nat
      BY <1>5, FS_CardinalityType
    <3>2. Cardinality(Sent \cup {l}) = IF l \in Sent THEN Cardinality(Sent)
                                       ELSE Cardinality(Sent) + 1
      BY <1>5, FS_AddElement
    <3> QED
      BY <3>1, <3>2
  <2>4. Cardinality(Sent \cup {l}) \in Nat
    BY <1>5, FS_AddElement, FS_CardinalityType
  <2> QED
    BY <2>1, <2>2, <2>3, <2>4, SignInAssumption
<1>8. Linked'
  BY <1>2, <1>3, <1>4, <1>5, <1>6, <1>7, <1>1 DEF SignInv, Linked, OneDoor
<1>9. ASSUME NEW w \in Doors PROVE Requested(w)'
  <2>1. OneDoor => request'[w] = Nobody
    BY <1>2, OthersRest
  <2> QED
    BY <2>1, <1>2 DEF SignInv, Requested, OneDoor
<1> QED
  BY <1>2, <1>8, <1>9 DEF SignInv, Lettered, Open

\* The link that is claimed was open, so nobody had claimed it.
LEMMA ResetConfirmed ==
    ASSUME SignInv, NEW v \in Doors, ConfirmReset(v)
    PROVE  SignInv'
<1> DEFINE l == request[v].link
<1>1. l \in Links /\ v \in doors /\ UNCHANGED <<doors, device, recent, letter>>
  BY DEF ConfirmReset, Doing, SignInv, Requested
<1>2. \E next : /\ Do(v, next)
                /\ next = Nobody \/ next.kind \in {"tokens", "refresh", "revoke"}
  BY DEF ConfirmReset
<1>3. \/ UNCHANGED <<account, link, claims>>
      \/ /\ link[l] = "open" /\ link' = AllUsed(link)
         /\ claims' = [claims EXCEPT ![l] = @ + 1]
         /\ account' = [account EXCEPT !.password = "new", !.failed = 0]
  BY DEF ConfirmReset, Claimable
<1>4. link' \in [Links -> {"none", "open", "used", "discarded"}]
      /\ \A k \in Links : \/ link'[k] = link[k]
                          \/ link[k] = "open" /\ link'[k] = "used"
  BY <1>3 DEF AllUsed, SignInv, Linked
<1>5. /\ claims' \in [Links -> Nat]
      /\ \A k \in Links : claims'[k] = 0 \/ (claims'[k] = 1 /\ link'[k] = "used")
  BY <1>1, <1>3, <1>4 DEF AllUsed, SignInv, Linked
<1>6. Open(link)' \subseteq Open(link) /\ Sent' = Sent
  BY <1>1, <1>4 DEF Open, Sent, SignInv, Linked
<1>7. Linked'
  BY <1>1, <1>4, <1>5, <1>6 DEF SignInv, Linked, OneDoor
<1>8. Lettered'
  <2>1. account' \in AccountRow /\ account'.status = account.status
    <3>1. account \in AccountRow
      BY DEF SignInv, Lettered
    <3>2. CASE account' = [account EXCEPT !.password = "new", !.failed = 0]
      BY <3>1, <3>2 DEF AccountRow
    <3> QED
      BY <3>1, <3>2, <1>3
  <2>2. account.status # "none"
    BY DEF ConfirmReset, Doing, SignInv, Requested
  <2> QED
    BY <1>1, <2>1, <2>2 DEF SignInv, Lettered, Open
<1>9. account'.status # "none"
  BY <1>3 DEF ConfirmReset, Doing, SignInv, Requested, Lettered, AccountRow
<1>10. /\ request' = [w \in Doors |-> request'[w]]
       /\ \A w \in Doors : Requested(w)'
  BY <1>1, <1>2, <1>6, <1>9, RequestsKept
<1> QED
  BY <1>1, <1>7, <1>8, <1>10 DEF SignInv

LEMMA SignStep == SignInv /\ [SignNext]_signVars => SignInv'
<1>1. ASSUME SignInv, UNCHANGED signVars PROVE SignInv'
  BY <1>1 DEF signVars, SignInv, Lettered, Linked, Requested, OneDoor, Sent, Open
<1>2. ASSUME SignInv, NEW v \in Doors,
             \/ Register(v) \/ Login(v) \/ CreateTokens(v) \/ OAuthCallback(v)
             \/ \E s \in Devices : BeginRefresh(v, s)
             \/ Refresh(v) \/ BeginLogout(v) \/ RevokeAll(v) \/ RevokeFails(v)
             \/ ChangePassword(v)
      PROVE  SignInv'
  BY <1>2, QuietStep
<1>3. ASSUME SignInv,
             \/ \E m \in Letters : VerifyEmail(m)
             \/ \E state \in {"active", "suspended"} : SetStatus(state)
             \/ \E s \in Devices : ExchangeOAuthCode(s)
             \/ ResendVerification \/ LoginFails \/ SetPassword
      PROVE  SignInv'
  <2>1. PICK v \in Doors : TRUE
    BY <1>3 DEF SignInv
  <2> QED
    BY <1>3, <2>1, QuietStep
<1> QED
  BY <1>1, <1>2, <1>3, LinkEnds, ResetBegins, ResetSent, ResetConfirmed DEF SignNext

\* A link sets a password at most once and a revoked session stays revoked, for any
\* number of server processes, devices and links; with one process the newest
\* link replaces the others, within the cap of an hour.
THEOREM LinksAndSessionsDoEnd == SignSpec => LinksAndSessionsEnd
<1>1. SignInit => SignInv
  <2> SUFFICES ASSUME SignInit PROVE SignInv
    OBVIOUS
  <2>1. Open(link) = {} /\ Open(letter) = {} /\ Sent = {}
    BY DEF SignInit, Open, Sent
  <2>2. IsFiniteSet({}) /\ Cardinality({}) = 0
    BY FS_EmptySet
  <2>3. account = NoAccount /\ account \in AccountRow
    BY DEF SignInit, AccountRow, NoAccount
  <2>4. doors \subseteq Doors /\ doors # {}
    BY DEF SignInit
  <2> QED
    BY <2>1, <2>2, <2>3, <2>4, SignInAssumption
       DEF SignInit, SignInv, Lettered, Linked, Requested, OneDoor
<1>2. SignInv =>
        /\ \A l \in DOMAIN claims : claims[l] <= 1
        /\ Cardinality(doors) = 1 =>
              /\ Cardinality(Open(link)) <= 1
              /\ Cardinality({l \in recent : link[l] # "discarded"}) <= MaxRequests
              /\ Cardinality(Open(letter)) <= 1
  <2> SUFFICES ASSUME SignInv PROVE <1>2!2
    OBVIOUS
  <2>1. ASSUME NEW S, \A x, y \in S : x = y PROVE Cardinality(S) <= 1
    <3>1. S = {} \/ \E x : S = {x}
      BY <2>1
    <3>2. CASE S = {}
      BY <3>2, FS_EmptySet
    <3>3. ASSUME NEW x, S = {x} PROVE Cardinality(S) <= 1
      <4>1. Cardinality({x}) = 1
        BY FS_Singleton
      <4> QED
        BY <3>3, <4>1
    <3> QED
      BY <3>1, <3>2, <3>3
  <2>2. \A l \in DOMAIN claims : claims[l] <= 1
    BY DEF SignInv, Linked
  <2> QED
    BY <2>1, <2>2 DEF SignInv, Linked, Lettered, OneDoor, Sent
<1>3. SignInv /\ [SignNext]_signVars =>
        (\A s \in DOMAIN device : device[s] = "revoked" => device'[s] = "revoked")
  <2> SUFFICES ASSUME SignInv, SignNext, NEW s \in Devices, device[s] = "revoked"
               PROVE  device'[s] = "revoked"
    BY DEF signVars, SignInv
  <2>1. \/ UNCHANGED device
        \/ \E v \in Doors : CreateTokens(v) \/ Refresh(v) \/ RevokeAll(v)
    BY DEF SignNext, Register, Login, OAuthCallback, ChangePassword, BeginLogout, RevokeFails,
       BeginRefresh, ExchangeOAuthCode, VerifyEmail, SetStatus, ResendVerification, LoginFails,
       SetPassword, DiscardLink, HourPasses, BeginRequestReset, RequestReset,
       BeginConfirmReset, ConfirmReset
  <2> QED
    BY <2>1 DEF CreateTokens, Refresh, Refreshed, RevokeAll, Active, SignInv
<1> QED
  BY <1>1, <1>2, <1>3, SignStep, PTL DEF SignSpec, LinksAndSessionsEnd

-----------------------------------------------------------------------------
(***************************************************************************)
(* Review                                                                  *)
(***************************************************************************)
OneHand == Cardinality(Serving) = 1
CardTyped ==
    /\ card.status \in Statuses
    /\ DOMAIN card = {"status", "text", "creator", "reviewer", "shelved"}

\* What the only server process is about to write rests on the row as it is; and
\* what it has written but not yet entered in the history is the row's status.
Rests(h) ==
    IF Idle(h) THEN died \/ trail = card.status
    ELSE IF hand[h].op = "log" THEN hand[h].row = card.status
    ELSE /\ died \/ trail = card.status
         /\ hand[h].status = Changed(hand[h].row)
         /\ hand[h].op = "approve" => hand[h].row = "approved"
         /\ hand[h].op \in {"archive", "restore"} => hand[h].row = card.status
         /\ hand[h].op \in {"edit", "start", "reject"} => hand[h].row # "approved"

ReviewInv ==
    /\ Serving \subseteq Hands /\ hand = [h \in Serving |-> hand[h]]
    /\ CardTyped /\ died \in BOOLEAN
    /\ \A h \in Serving : ~Idle(h) => hand[h] \in ReviewRequests
    /\ OneHand => Approved(card.text) /\ \A h \in Serving : Rests(h)

LEMMA OtherHands ==
    ASSUME ReviewInv, OneHand, NEW h \in Serving, NEW k \in Serving
    PROVE  k = h
  BY ReviewAssumption, SoleProcess DEF ReviewInv, OneHand

LEMMA ServeStep ==
    ASSUME ReviewInv, NEW h \in Serving, NEW v \in Reviewers,
           \/ EditQuestionText(h, v) \/ StartReview(h, v) \/ ApproveQuestion(h, v)
           \/ RejectQuestion(h, v) \/ ShelveReview(h, v)
    PROVE  ReviewInv'
<1>1. PICK op \in {"edit", "start", "approve", "reject", "archive", "restore"},
           state \in Statuses, reviewer \in Reviewers \cup {Same} :
         /\ Serve(h, v, op, state, reviewer)
         /\ op = "approve" => state = "approved"
         /\ op \in {"archive", "restore"} => state = card.status
         /\ op \in {"edit", "start", "reject"} => state # "approved"
  <2>1. card.status \in Statuses
    BY DEF ReviewInv, CardTyped
  <2>2. CASE EditQuestionText(h, v)
    BY <2>2 DEF EditQuestionText, StatusAfterEdit, Statuses
  <2>3. CASE StartReview(h, v)
    BY <2>3 DEF StartReview, Statuses
  <2>4. CASE ApproveQuestion(h, v)
    BY <2>4 DEF ApproveQuestion, Statuses
  <2>5. CASE RejectQuestion(h, v)
    BY <2>5 DEF RejectQuestion, Statuses
  <2>6. CASE ShelveReview(h, v)
    BY <2>1, <2>6 DEF ShelveReview
  <2> QED
    BY <2>2, <2>3, <2>4, <2>5, <2>6
<1>2. /\ UNCHANGED <<card, second, trail, approval, died>> /\ Idle(h)
      /\ hand' = [hand EXCEPT ![h] = [op |-> op, by |-> v, status |-> Changed(state),
                                      reviewer |-> reviewer, row |-> state]]
  BY <1>1 DEF Serve
<1>3. /\ Serving' = Serving /\ hand' = [k \in Serving |-> hand'[k]]
      /\ hand'[h] = [op |-> op, by |-> v, status |-> Changed(state),
                     reviewer |-> reviewer, row |-> state]
      /\ \A k \in Serving \ {h} : hand'[k] = hand[k]
  BY <1>2 DEF Serving, ReviewInv
<1>4. hand'[h] \in ReviewRequests
  BY <1>3 DEF ReviewRequests, Changed
<1>5. ASSUME OneHand PROVE \A k \in Serving : Rests(k)'
  <2>1. died \/ trail = card.status
    BY <1>2, <1>5 DEF ReviewInv, Rests
  <2>2. Rests(h)'
    BY <1>1, <1>2, <1>3, <2>1 DEF Rests, Idle, Changed
  <2> QED
    BY <2>2, <1>5, OtherHands
<1>6. ASSUME NEW k \in Serving, ~Idle(k)' PROVE hand'[k] \in ReviewRequests
  BY <1>3, <1>4, <1>6 DEF ReviewInv, Idle
<1> QED
  BY <1>2, <1>3, <1>5, <1>6 DEF ReviewInv, OneHand, Approved, CardTyped

LEMMA CommitStep ==
    ASSUME ReviewInv, NEW h \in Serving, CommitReview(h)
    PROVE  ReviewInv'
<1> DEFINE r == hand[h]
<1>1. r \in ReviewRequests /\ r.op # "log" /\ CardTyped /\ card' = Written(r)
      /\ ~Idle(h) /\ UNCHANGED <<second, died>>
  BY DEF CommitReview, ReviewInv
<1>2. /\ CardTyped'
      /\ card'.status = IF r.status = Same THEN card.status ELSE r.status
      /\ card'.text = IF r.op = "edit" THEN card.text + 1 ELSE card.text
  BY <1>1 DEF Written, CardTyped, ReviewRequests
<1>3. /\ Serving' = Serving /\ hand' = [k \in Serving |-> hand'[k]]
      /\ \A k \in Serving \ {h} : hand'[k] = hand[k]
  BY DEF CommitReview, Serving, ReviewInv
<1>4. \/ /\ r.op \in {"start", "archive", "restore"}
         /\ trail' = r.row /\ hand'[h] = NoRequest
      \/ /\ r.op \notin {"start", "archive", "restore"} /\ trail' = trail
         /\ hand'[h] = [r EXCEPT !.op = "log",
                                 !.row = IF r.op = "edit" THEN card'.status ELSE @]
  BY DEF CommitReview, ReviewInv
<1>5. \/ hand'[h] = NoRequest /\ trail' = r.row
      \/ /\ hand'[h] \in ReviewRequests /\ hand'[h].op = "log"
         /\ hand'[h].row = IF r.op = "edit" THEN card'.status ELSE r.row
  BY <1>1, <1>2, <1>4 DEF ReviewRequests, CardTyped
<1>6. ASSUME OneHand PROVE Approved(card.text)' /\ \A k \in Serving : Rests(k)'
  <2>1. Rests(h) /\ Approved(card.text)
    BY <1>6 DEF ReviewInv
  <2>2. card'.status = r.row
    BY <1>1, <1>2, <2>1, ReviewAssumption DEF Rests, Changed, ReviewRequests
  <2>3. Rests(h)'
    <3>1. CASE hand'[h] = NoRequest
      BY <3>1, <1>5, <2>2, ReviewAssumption DEF Rests, Idle
    <3>2. CASE hand'[h] # NoRequest
      BY <3>2, <1>5, <2>2 DEF Rests, Idle
    <3> QED
      BY <3>1, <3>2
  <2>4. Approved(card.text)'
    <3>1. CASE r.op = "approve"
      <4>1. approval'.text = card.text
        BY <3>1 DEF CommitReview
      <4> QED
        BY <3>1, <4>1, <1>2 DEF Approved
    <3>2. CASE r.op # "approve" /\ card'.status = "approved"
      <4>1. r.op \in {"archive", "restore"} /\ card.status = "approved"
        BY <3>2, <2>1, <2>2, <1>1 DEF Rests, ReviewRequests
      <4>2. approval' = approval
        BY <3>2 DEF CommitReview
      <4> QED
        BY <4>1, <4>2, <2>1, <1>2 DEF Approved
    <3> QED
      BY <3>1, <3>2 DEF Approved
  <2> QED
    BY <2>3, <2>4, <1>6, OtherHands
<1>7. ASSUME NEW k \in Serving, ~Idle(k)' PROVE hand'[k] \in ReviewRequests
  BY <1>3, <1>5, <1>7 DEF ReviewInv, Idle
<1> QED
  BY <1>1, <1>2, <1>3, <1>6, <1>7 DEF ReviewInv, OneHand

LEMMA HistoryStep ==
    ASSUME ReviewInv, NEW h \in Serving, CommitHistory(h) \/ DropRequest(h)
    PROVE  ReviewInv'
<1>1. /\ UNCHANGED <<card, second, approval>> /\ hand' = [hand EXCEPT ![h] = NoRequest]
      /\ ~Idle(h) /\ died' \in BOOLEAN
      /\ \/ died' = died /\ trail' = hand[h].row /\ hand[h].op = "log"
         \/ trail' = trail /\ (died' <=> died \/ hand[h].op = "log")
  BY DEF CommitHistory, DropRequest, ReviewInv
<1>2. /\ Serving' = Serving /\ hand' = [k \in Serving |-> hand'[k]] /\ hand'[h] = NoRequest
      /\ \A k \in Serving \ {h} : hand'[k] = hand[k]
  BY <1>1 DEF Serving, ReviewInv
<1>3. ASSUME OneHand PROVE \A k \in Serving : Rests(k)'
  <2>1. Rests(h)
    BY <1>3 DEF ReviewInv
  <2>2. died' \/ trail' = card'.status
    BY <2>1, <1>1 DEF Rests
  <2> QED
    BY <2>2, <1>2, <1>3, OtherHands DEF Rests, Idle
<1> QED
  BY <1>1, <1>2, <1>3 DEF ReviewInv, OneHand, Approved, Idle, CardTyped

\* Nobody's request is touched, and neither the status nor the text.
LEMMA AroundStep ==
    ASSUME ReviewInv,
           \/ \E v \in Reviewers : Look(v) \/ EraseReviewer(v)
           \/ RequireSecondReviewer
           \/ UNCHANGED reviewVars
    PROVE  ReviewInv'
<1>1. /\ UNCHANGED <<hand, trail, approval, died>>
      /\ CardTyped' /\ card'.status = card.status /\ card'.text = card.text
  BY DEF Look, EraseReviewer, RequireSecondReviewer, reviewVars, ReviewInv, CardTyped
<1>2. \A h \in Serving : Rests(h) => Rests(h)'
  BY <1>1 DEF Rests, Idle, Changed
<1> QED
  BY <1>1, <1>2 DEF ReviewInv, OneHand, Approved, Serving, Idle

\* With one server process, however many reviewers: an approved question has the text
\* that was approved, and the history tells its status unless the process died.
THEOREM ApprovalsHold == ReviewSpec => []ApprovalHolds
<1>1. ReviewInit => ReviewInv
  <2> SUFFICES ASSUME ReviewInit PROVE ReviewInv
    OBVIOUS
  <2>1. PICK H \in (SUBSET Hands) \ {{}} : hand = [h \in H |-> NoRequest]
    BY DEF ReviewInit
  <2>2. Serving = H
    BY <2>1 DEF Serving
  <2>3. CardTyped /\ card.status = "pending"
    BY DEF ReviewInit, CardTyped, Statuses
  <2>4. \A h \in Serving : Idle(h) /\ Rests(h)
    BY <2>1, <2>2, <2>3 DEF ReviewInit, Rests, Idle
  <2> QED
    BY <2>1, <2>2, <2>3, <2>4 DEF ReviewInit, ReviewInv, Approved
<1>2. ReviewInv /\ [ReviewNext]_reviewVars => ReviewInv'
  BY ServeStep, CommitStep, HistoryStep, AroundStep DEF ReviewNext
<1>3. ReviewInv => ApprovalHolds
  <2> SUFFICES ASSUME ReviewInv, OneHand
               PROVE  /\ Approved(card.text)
                      /\ ~died /\ (\A h \in Serving : Idle(h)) => trail = card.status
    BY DEF ApprovalHolds, OneHand
  <2>1. Serving # {}
    BY FS_EmptySet DEF OneHand
  <2> QED
    BY <2>1 DEF ReviewInv, Rests
<1> QED
  BY <1>1, <1>2, <1>3, PTL DEF ReviewSpec

-----------------------------------------------------------------------------
(***************************************************************************)
(* The progress stream                                                     *)
(***************************************************************************)
\* The ends a stream tells because of how its task stands.
Own == {"task", "timeout"}

StreamRow ==
    [at : {"off", "accept", "handshake", "poll", "info", "report", "ended"}, closed : BOOLEAN,
     pending : Nat, failures : Nat,
     read : {"PENDING", "STARTED", "PROGRESS", "RETRY", "SUCCESS"} \cup Ended,
     late : BOOLEAN, torn : BOOLEAN, said : {"nothing", "SUCCESS"} \cup Ended,
     why : {"nothing", "row", "redis", "stream"} \cup Own]

\* SUCCESS is never said, read or stored of work that was not done; a stream that
\* is late asked when the row already said SUCCESS; and it is registered from
\* its handshake on, unless another one took its place.
Truthful(s) ==
    /\ stream[s].late => row = "SUCCESS"
    /\ stream[s].read = "SUCCESS" => completed
    /\ stream[s].said = "SUCCESS" => completed
    /\ stream[s].said \in Ended /\ stream[s].why \in Own => ~stream[s].late
    /\ stream[s].said # "nothing" => stream[s].at = "ended"

StreamInv ==
    /\ stream \in [Streams -> StreamRow] /\ completed \in BOOLEAN
    /\ celery \in {"PENDING", "STARTED", "PROGRESS", "RETRY", "SUCCESS"} \cup Ended
    /\ row = "SUCCESS" => completed
    /\ celery = "SUCCESS" => completed
    /\ \A s \in Streams : Truthful(s)
    /\ registered # NoStream =>
          registered \in Streams /\ stream[registered].at \in Polling \cup {"handshake"}

\* What a step has to show: one stream changed, to a truthful row.
LEMMA OneStreamStep ==
    ASSUME StreamInv, UNCHANGED Task, NEW s \in Streams, NEW new \in StreamRow,
           stream' = [stream EXCEPT ![s] = new],
           new.late => row = "SUCCESS",
           new.read = "SUCCESS" \/ new.said = "SUCCESS" => completed,
           new.said \in Ended /\ new.why \in Own => ~new.late,
           new.said # "nothing" => new.at = "ended",
           \/ registered' = NoStream
           \/ registered' = registered /\ s # registered
           \/ registered' \in {registered, s} /\ new.at \in Polling \cup {"handshake"}
    PROVE  StreamInv'
<1>1. /\ stream' \in [Streams -> StreamRow] /\ stream'[s] = new
      /\ \A t \in Streams \ {s} : stream'[t] = stream[t]
  BY DEF StreamInv
<1>2. \A t \in Streams : Truthful(t)'
  BY <1>1 DEF StreamInv, Truthful, Task
<1> QED
  BY <1>1, <1>2 DEF StreamInv, Task

LEMMA EndStep ==
    ASSUME StreamInv, UNCHANGED Task, NEW s \in Streams,
           NEW said \in {"nothing", "SUCCESS"} \cup Ended, NEW why \in {"nothing", "row", "redis", "stream"} \cup Own,
           said = "SUCCESS" => completed,
           said \in Ended /\ why \in Own => ~stream[s].late,
           End(s, said, why)
    PROVE  StreamInv'
<1> DEFINE new == [New EXCEPT !.at = "ended", !.late = stream[s].late,
                              !.said = said, !.why = why]
<1>1. stream[s] \in StreamRow
  BY DEF StreamInv
<1>2. /\ new \in StreamRow /\ new.late = stream[s].late /\ new.read = "PENDING"
      /\ new.said \in {"nothing", said} /\ new.at = "ended" /\ new.why = why
  <2>1. New \in StreamRow /\ New.read = "PENDING"
    BY DEF New, StreamRow
  <2>2. stream[s].late \in BOOLEAN
    BY <1>1 DEF StreamRow
  <2> QED
    BY <2>1, <2>2 DEF StreamRow, Ended, Own
<1>3. stream' = [stream EXCEPT ![s] = new] /\ registered' = NoStream
  BY DEF End
<1>4. stream[s].late => row = "SUCCESS"
  BY DEF StreamInv, Truthful
<1> HIDE DEF new
<1> QED
  BY <1>2, <1>3, <1>4, OneStreamStep DEF Ended

LEMMA SendStep ==
    ASSUME StreamInv, UNCHANGED Task, NEW s \in Streams,
           NEW said \in {"nothing", "SUCCESS"} \cup Ended, NEW why \in {"nothing", "row", "redis", "stream"} \cup Own,
           said = "SUCCESS" => completed,
           said \in Ended /\ why \in Own => ~stream[s].late,
           Send(s, said, why)
    PROVE  StreamInv'
<1>1. CASE stream[s].closed
  <2>1. End(s, "nothing", "nothing")
    BY <1>1 DEF Send, Quit
  <2> QED
    BY <2>1, EndStep DEF Ended, Own
<1>2. CASE ~stream[s].closed
  <2>1. End(s, said, why)
    BY <1>2 DEF Send
  <2> QED
    BY <2>1, EndStep
<1> QED
  BY <1>1, <1>2

\* A stream that starts: whoever is registered is closed and runs on.
LEMMA ConnectStep ==
    ASSUME StreamInv, NEW s \in Streams, CloseExisting(s) \/ Accept(s) \/ Authenticate(s)
    PROVE  StreamInv'
<1>1. stream[s] \in StreamRow /\ Truthful(s) /\ stream = [t \in Streams |-> stream[t]]
  BY DEF StreamInv
<1>2. CASE CloseExisting(s)
  <2>1. /\ s # registered \/ registered = NoStream
        /\ UNCHANGED <<Task, registered>>
        /\ stream' = [t \in Streams |-> stream'[t]]
        /\ stream'[s] = [stream[s] EXCEPT !.at = "accept"]
        /\ \A t \in Streams \ {s} :
              stream'[t] \in {stream[t], [stream[t] EXCEPT !.closed = TRUE]}
    BY <1>1, <1>2 DEF CloseExisting, StreamInv, Polling
  <2>2. \A t \in Streams : stream[t] \in StreamRow /\ Truthful(t)
    BY DEF StreamInv
  <2>3. /\ stream'[s] \in StreamRow /\ stream'[s].late = stream[s].late
        /\ stream'[s].read = stream[s].read /\ stream'[s].why = stream[s].why
        /\ stream'[s].said = "nothing"
    <3>1. stream[s].said = "nothing"
      BY <1>1, <1>2 DEF Truthful, CloseExisting
    <3> QED
      BY <3>1, <2>1, <1>1 DEF StreamRow
  <2>4. ASSUME NEW t \in Streams \ {s}
        PROVE  /\ stream'[t] \in StreamRow /\ stream'[t].late = stream[t].late
               /\ stream'[t].read = stream[t].read /\ stream'[t].why = stream[t].why
               /\ stream'[t].said = stream[t].said /\ stream'[t].at = stream[t].at
    <3>1. stream[t] \in StreamRow
      BY <2>2
    <3>2. CASE stream'[t] = stream[t]
      BY <3>1, <3>2
    <3>3. CASE stream'[t] = [stream[t] EXCEPT !.closed = TRUE]
      BY <3>1, <3>3 DEF StreamRow
    <3> QED
      BY <2>1, <3>2, <3>3
  <2>7. row' = row /\ completed' = completed
    BY <2>1 DEF Task
  <2>8. Truthful(s)'
    BY <1>1, <2>3, <2>7 DEF Truthful, Ended
  <2>9. ASSUME NEW t \in Streams \ {s} PROVE Truthful(t)'
    BY <2>2, <2>4, <2>7, <2>9 DEF Truthful
  <2>5. \A t \in Streams : Truthful(t)'
    BY <2>8, <2>9
  <2>6. stream' \in [Streams -> StreamRow]
    BY <2>1, <2>3, <2>4
  <2> QED
    BY <2>1, <2>4, <2>5, <2>6 DEF StreamInv, Task, CloseExisting
<1>3. CASE Accept(s)
  <2> DEFINE new == [stream[s] EXCEPT !.at = "handshake"]
             gone == [stream[s] EXCEPT !.at = "ended"]
  <2>1. /\ new \in StreamRow /\ new.late = stream[s].late /\ new.read = stream[s].read
        /\ new.said = "nothing" /\ new.at = "handshake"
    BY <1>1, <1>3 DEF StreamRow, Accept, Truthful
  <2>2. /\ gone \in StreamRow /\ gone.late = stream[s].late /\ gone.read = stream[s].read
        /\ gone.said = "nothing" /\ gone.at = "ended"
    BY <1>1, <1>3 DEF StreamRow, Accept, Truthful
  <2>3. /\ UNCHANGED Task /\ (s # registered \/ registered = NoStream)
        /\ \/ stream' = [stream EXCEPT ![s] = new] /\ registered' = s
           \/ stream' = [stream EXCEPT ![s] = gone] /\ registered' = registered
    BY <1>3 DEF Accept, StreamInv, Polling
  <2> HIDE DEF new, gone
  <2>4. CASE stream' = [stream EXCEPT ![s] = new] /\ registered' = s
    BY <1>1, <2>1, <2>3, <2>4, OneStreamStep DEF Truthful, Ended
  <2>5. CASE stream' = [stream EXCEPT ![s] = gone] /\ registered' = registered
    BY <1>1, <2>2, <2>3, <2>5, OneStreamStep DEF Truthful, Ended
  <2> QED
    BY <2>3, <2>4, <2>5
<1>4. CASE Authenticate(s)
  <2> DEFINE new == [stream[s] EXCEPT !.at = "poll"]
  <2>1. /\ new \in StreamRow /\ new.late = stream[s].late /\ new.read = stream[s].read
        /\ new.said = "nothing" /\ new.at = "poll"
    BY <1>1, <1>4 DEF StreamRow, Authenticate, Truthful
  <2>2. UNCHANGED Task /\ (Continue(s, new) \/ End(s, "nothing", "nothing"))
    BY <1>4 DEF Authenticate, Quit
  <2>3. CASE Continue(s, new)
    <3>1. stream' = [stream EXCEPT ![s] = new] /\ registered' = registered
      BY <2>3 DEF Continue
    <3> HIDE DEF new
    <3> QED
      BY <1>1, <2>1, <2>2, <3>1, OneStreamStep DEF Truthful, Ended, Polling
  <2>4. CASE End(s, "nothing", "nothing")
    BY <2>2, <2>4, EndStep DEF Ended, Own
  <2> QED
    BY <2>2, <2>3, <2>4
<1> QED
  BY <1>2, <1>3, <1>4

\* A stream that stays keeps what it was told, or asks Celery again.
LEMMA StayStep ==
    ASSUME StreamInv, UNCHANGED Task, NEW s \in Streams, NEW new \in StreamRow,
           Continue(s, new), new.at \in Polling, stream[s].at \in Polling,
           new.said = stream[s].said, new.late \in {stream[s].late, row = "SUCCESS"},
           new.read \in {stream[s].read, celery}
    PROVE  StreamInv'
<1>1. /\ Truthful(s) /\ stream[s] \in StreamRow /\ (celery = "SUCCESS" => completed)
      /\ stream' = [stream EXCEPT ![s] = new] /\ registered' = registered
  BY DEF StreamInv, Continue
<1>2. new.said = "nothing" /\ (new.late => row = "SUCCESS")
  BY <1>1 DEF Truthful, Polling
<1>3. new.read = "SUCCESS" \/ new.said = "SUCCESS" => completed
  BY <1>1, <1>2 DEF Truthful
<1> QED
  BY <1>1, <1>2, <1>3, OneStreamStep DEF Ended, Polling

\* Redis is tried again, or the stream ends.
LEMMA UnreachableStep ==
    ASSUME StreamInv, UNCHANGED Task, NEW s \in Streams, stream[s].at \in Polling,
           Unreachable(s)
    PROVE  StreamInv'
<1>1. stream[s] \in StreamRow
  BY DEF StreamInv
<1> DEFINE n == stream[s].failures + 1
           retry == [stream[s] EXCEPT !.at = "poll", !.failures = n]
<1>2. n \in Nat
  BY <1>1 DEF StreamRow
<1>3. Continue(s, retry) \/ Send(s, "FAILURE", "redis")
  BY DEF Unreachable
<1> HIDE DEF n
<1>4. /\ retry \in StreamRow /\ retry.late = stream[s].late /\ retry.read = stream[s].read
      /\ retry.said = stream[s].said /\ retry.at \in Polling
  BY <1>1, <1>2 DEF StreamRow, Polling
<1> HIDE DEF retry
<1>5. CASE Continue(s, retry)
  BY <1>4, <1>5, StayStep
<1>6. CASE Send(s, "FAILURE", "redis")
  BY <1>6, SendStep DEF Ended, Own
<1> QED
  BY <1>3, <1>5, <1>6

LEMMA LoopStep ==
    ASSUME StreamInv, NEW s \in Streams,
           \/ Leave(s) \/ Poll(s) \/ ReadInfo(s) \/ BreakDown(s) \/ ReportProgress(s)
           \/ ReportSuccess(s) \/ Wait(s) \/ ReportEnd(s)
    PROVE  StreamInv'
<1>1. /\ UNCHANGED Task /\ stream[s] \in StreamRow /\ Truthful(s)
      /\ stream[s].at \in Polling
  BY DEF Leave, Poll, ReadInfo, BreakDown, ReportProgress, ReportSuccess, Wait,
         ReportEnd, StreamInv, Polling
<1>2. CASE Leave(s)
  <2> DEFINE new == [stream[s] EXCEPT !.closed = TRUE]
  <2>1. /\ new \in StreamRow /\ new.late = stream[s].late /\ new.read = stream[s].read
        /\ new.said = stream[s].said /\ new.at \in Polling
    BY <1>1 DEF StreamRow
  <2> QED
    BY <1>1, <1>2, <2>1, StayStep DEF Leave
<1>3. CASE Poll(s)
  <2> DEFINE late == row = "SUCCESS"
             asked == [stream[s] EXCEPT !.at = "info", !.read = celery, !.late = late]
  <2>1. Continue(s, asked) \/ Unreachable(s)
    BY <1>3 DEF Poll
  <2>2. CASE Continue(s, asked)
    <3>1. celery \in {"PENDING", "STARTED", "PROGRESS", "RETRY", "SUCCESS"} \cup Ended
      BY DEF StreamInv
    <3>2. late \in BOOLEAN
      OBVIOUS
    <3> HIDE DEF late
    <3>3. /\ asked \in StreamRow /\ asked.late = late /\ asked.read = celery
          /\ asked.said = stream[s].said /\ asked.at \in Polling
      BY <1>1, <3>1, <3>2 DEF StreamRow, Polling
    <3> USE DEF late
    <3> HIDE DEF asked
    <3> QED
      BY <1>1, <2>2, <3>3, StayStep
  <2> QED
    BY <1>1, <2>1, <2>2, UnreachableStep
<1>8. CASE ReadInfo(s)
  <2> DEFINE torn == stream[s].read = "PROGRESS" /\ celery \in Raised
             new == [stream[s] EXCEPT !.at = "report", !.failures = 0, !.torn = torn]
  <2>1. Continue(s, new) \/ Unreachable(s)
    BY <1>8 DEF ReadInfo
  <2>2. CASE Continue(s, new)
    <3>1. torn \in BOOLEAN
      OBVIOUS
    <3> HIDE DEF torn
    <3>2. /\ new \in StreamRow /\ new.late = stream[s].late /\ new.read = stream[s].read
          /\ new.said = stream[s].said /\ new.at \in Polling
      BY <1>1, <3>1 DEF StreamRow, Polling
    <3> HIDE DEF new
    <3> QED
      BY <1>1, <2>2, <3>2, StayStep
  <2> QED
    BY <1>1, <2>1, <2>2, UnreachableStep
<1>9. CASE BreakDown(s)
  <2>1. Send(s, "FAILURE", "stream")
    BY <1>9 DEF BreakDown
  <2> QED
    BY <1>1, <2>1, SendStep DEF Ended, Own
<1>4. CASE ReportProgress(s)
  <2> DEFINE new == [stream[s] EXCEPT !.at = "poll", !.pending = 0]
  <2>1. /\ new \in StreamRow /\ new.late = stream[s].late /\ new.read = stream[s].read
        /\ new.said = stream[s].said /\ new.at \in Polling
    BY <1>1 DEF StreamRow, Polling
  <2>2. Continue(s, new) \/ (stream[s].closed /\ End(s, "nothing", "nothing"))
    BY <1>4 DEF ReportProgress, Quit
  <2>3. CASE Continue(s, new)
    <3> HIDE DEF new
    <3> QED
      BY <1>1, <2>1, <2>3, StayStep
  <2>4. CASE End(s, "nothing", "nothing")
    BY <1>1, <2>4, EndStep DEF Ended, Own
  <2> QED
    BY <2>2, <2>3, <2>4
<1>5. CASE ReportSuccess(s)
  <2>1. completed /\ Send(s, "SUCCESS", "task")
    BY <1>1, <1>5 DEF ReportSuccess, Truthful
  <2> QED
    BY <1>1, <2>1, SendStep DEF Ended, Own
<1>6. CASE Wait(s)
  <2> DEFINE n == stream[s].pending + 1
             new == [stream[s] EXCEPT !.at = "poll", !.pending = n]
  <2>1. n \in Nat
    BY <1>1 DEF StreamRow
  <2> HIDE DEF n
  <2>3. /\ new \in StreamRow /\ new.late = stream[s].late /\ new.read = stream[s].read
        /\ new.said = stream[s].said /\ new.at \in Polling
    BY <1>1, <2>1 DEF StreamRow, Polling
  <2> USE DEF n
  <2>2. Continue(s, new)
    BY <1>6 DEF Wait
  <2> HIDE DEF new
  <2> QED
    BY <1>1, <2>2, <2>3, StayStep
<1>7. CASE ReportEnd(s)
  <2> DEFINE verdict == IF stream[s].read = "PENDING" THEN "FAILURE" ELSE stream[s].read
             why == IF stream[s].read = "PENDING" THEN "timeout" ELSE "task"
  <2>1. verdict \in Ended /\ AsksRow(stream[s].read) /\ why \in Own
    BY <1>7 DEF ReportEnd, AsksRow, Ended, Own
  <2>2. \/ Send(s, IF row = "SUCCESS" THEN "SUCCESS" ELSE verdict, why)
        \/ \E told \in Ended : Send(s, told, "row")
    BY <1>7, <2>1 DEF ReportEnd, Ended
  <2> HIDE DEF verdict, why
  <2>3. ASSUME NEW told \in Ended, Send(s, told, "row")
        PROVE  StreamInv'
    BY <1>1, <2>3, SendStep DEF Ended, Own
  <2>4. CASE row = "SUCCESS" /\ Send(s, "SUCCESS", why)
    BY <1>1, <2>1, <2>4, SendStep DEF Ended, StreamInv
  <2>5. CASE row # "SUCCESS" /\ Send(s, verdict, why)
    BY <1>1, <2>1, <2>5, SendStep DEF Ended, Truthful
  <2> QED
    BY <2>2, <2>3, <2>4, <2>5
<1> QED
  BY <1>2, <1>3, <1>4, <1>5, <1>6, <1>7, <1>8, <1>9

\* The task goes on: Celery forgets and errs, the row says SUCCESS once.
LEMMA TaskStep ==
    ASSUME StreamInv,
           \/ Start \/ Progress \/ Retry \/ Revoke \/ Forget \/ Lost \/ Redeliver \/ Succeed
           \/ Complete \/ UNCHANGED streamVars
    PROVE  StreamInv'
<1>1. /\ UNCHANGED <<registered, stream>> /\ completed' \in BOOLEAN
      /\ completed => completed'
      /\ row = "SUCCESS" => row' = "SUCCESS"
      /\ row' = "SUCCESS" => completed'
      /\ celery' \in {"PENDING", "STARTED", "PROGRESS", "RETRY", "SUCCESS"} \cup Ended
      /\ celery' = "SUCCESS" => completed'
  BY DEF StreamInv, Start, Progress, Retry, Revoke, Forget, Lost, Redeliver, Succeed,
         Complete, Celery, Ended, streamVars
<1>2. \A s \in Streams : Truthful(s)'
  BY <1>1 DEF StreamInv, Truthful
<1> QED
  BY <1>1, <1>2 DEF StreamInv

\* Whatever Celery loses, forgets or repeats, however many clients come and go: no
\* stream tells, from the task's state, FAILURE of a job whose questions it could have
\* known to be saved, none tells SUCCESS of work not done, and the one registered runs.
THEOREM StreamsTellTruth == StreamSpec => []StreamTellsTruth
<1>1. StreamInit => StreamInv
  <2> SUFFICES ASSUME StreamInit PROVE StreamInv
    OBVIOUS
  <2>1. New \in StreamRow
    BY DEF New, StreamRow
  <2>2. stream \in [Streams -> StreamRow] /\ \A s \in Streams : stream[s] = New
    BY <2>1 DEF StreamInit
  <2>3. \A s \in Streams : Truthful(s)
    BY <2>2 DEF Truthful, New, Ended
  <2> QED
    BY <2>2, <2>3 DEF StreamInit, StreamInv
<1>2. StreamInv /\ [StreamNext]_streamVars => StreamInv'
  BY ConnectStep, LoopStep, TaskStep DEF StreamNext
<1>3. StreamInv => StreamTellsTruth
  BY DEF StreamInv, StreamTellsTruth, Truthful, Own
<1> QED
  BY <1>1, <1>2, <1>3, PTL DEF StreamSpec

-----------------------------------------------------------------------------
(***************************************************************************)
(* The search index of the help pages                                      *)
(***************************************************************************)
AnswerRests(p) == answer[p] \in {{}, collection[p]} \/ collection[p] = {}

\* A page that a run from the recorded commit may have touched.
Disturbed(p) ==
    \E u \in Releases : /\ sha < u /\ docs[u][p] # docs[sha][p]
                        /\ \E t \in Servers : u <= release[t]
AsRecorded(p) == ReadsAs(p, sha) \/ Disturbed(p)

HelpTypes ==
    /\ docs \in [Releases -> Content] /\ release \in [Servers -> Releases]
    /\ collection = [p \in Pages |-> collection[p]]
    /\ answer = [p \in Pages |-> answer[p]]
    /\ sha \in Releases \cup {NoSha}
    /\ broken \in BOOLEAN
    /\ run = [s \in Servers |-> run[s]]
    /\ \A s \in Servers : Runs(s) => run[s] \in HelpRuns

\* What a run on its own has done so far: every page it is through with reads as in
\* its release unless it failed; a page it does not touch keeps its answer; and
\* one that starts from the recorded commit touches only what differs from it.
Underway(s, r) ==
    /\ r.todo \subseteq PagesOf(release[s]) /\ r.gone \cap PagesOf(release[s]) = {}
    /\ r.todo \cup r.gone \subseteq r.touched
    /\ ~r.failed => \A p \in PagesOf(release[s]) \ r.todo : ReadsAs(p, release[s])
    /\ \A p \in Pages \ r.touched : AnswerRests(p)
    /\ r.full => r.every /\ \A p \in Pages \ r.touched : collection[p] = {}
    /\ ~r.every => /\ sha \in Releases /\ r.git
                   /\ \A p \in PagesOf(sha) : AsRecorded(p)
    /\ ~r.every /\ ~r.saved =>
          /\ sha <= release[s]
          /\ \A p \in r.todo \cup r.gone : docs[release[s]][p] # docs[sha][p]
    /\ r.saved => /\ r.todo = {} /\ r.gone = {}
                  /\ status = IF r.failed THEN "partial" ELSE "completed"
                  /\ ~r.failed => sha \in {release[s], NoSha}

\* Between two runs.
Settled ==
    /\ status \in {"idle", "partial", "completed"}
    /\ \A p \in Pages : AnswerRests(p)
    /\ sha # NoSha =>
          \A p \in PagesOf(sha) :
              AsRecorded(p) /\ (status # "partial" => ReadsAs(p, sha))

HelpInv ==
    /\ HelpTypes
    /\ \A s, t \in Servers : Runs(s) /\ run[s].alone /\ Runs(t) => s = t
    /\ ~broken => \A s \in Servers : Runs(s) => lock = s /\ run[s].alone
    /\ \A s \in Servers :
          Runs(s) /\ run[s].alone /\ (run[s].full \/ ~broken) => Underway(s, run[s])
    /\ ~broken /\ Resting => Settled

\* The steps of a run: they leave the lock, the releases and the other runs alone.
LEMMA WentStep ==
    ASSUME HelpInv, NEW s \in Servers, Runs(s), NEW new \in HelpRuns, Went(s, new),
           UNCHANGED <<docs, release, lock, broken>>, HelpTypes => HelpTypes',
           new.full = run[s].full, new.alone = run[s].alone,
           new.alone /\ Underway(s, run[s]) => Underway(s, new)'
    PROVE  HelpInv'
<1>1. /\ run'[s] = new /\ \A t \in Servers \ {s} : run'[t] = run[t]
      /\ new # NoRun
  BY HelpAssumption DEF Went, HelpInv, HelpTypes
<1>2. \A t \in Servers : Runs(t)' <=> Runs(t)
  BY <1>1 DEF Runs
<1>3. \A t \in Servers : run'[t].alone = run[t].alone /\ run'[t].full = run[t].full
  BY <1>1
<1>4. ASSUME NEW t \in Servers, Runs(t), run[t].alone, run[t].full \/ ~broken
      PROVE  Underway(t, run[t])'
  <2>1. t = s /\ Underway(s, run[s])
    BY <1>4 DEF HelpInv
  <2> QED
    BY <1>1, <1>3, <1>4, <2>1
<1> QED
  BY <1>2, <1>3, <1>4 DEF HelpInv, Resting

LEMMA BeginStep ==
    ASSUME HelpInv, NEW s \in Servers, NEW asked \in BOOLEAN, NEW git \in BOOLEAN,
           Begin(s, asked, git)
    PROVE  HelpInv'
<1> DEFINE full == Full(asked)
           diff == FromDiff(s, asked, git)
           every == ~diff
           solo == \A u \in Servers : run[u] = NoRun
           todo == Todo(s, diff)
           gone == Gone(s, diff)
           new == [full |-> full, every |-> every, git |-> git, todo |-> todo,
                   gone |-> gone, touched |-> todo \cup gone, failed |-> FALSE,
                   saved |-> FALSE, alone |-> solo]
<1>1. /\ full \in BOOLEAN /\ every \in BOOLEAN /\ solo \in BOOLEAN
      /\ todo \subseteq Pages /\ gone \subseteq Pages
  BY DEF Full, FromDiff, Indexed, Todo, Gone, PagesOf, ChangedPages, DeletedPages
<1>2. /\ UNCHANGED <<docs, release, sha, answer>> /\ lock' = s /\ lock = Unlocked
      /\ run' = [t \in Servers |->
            IF t = s THEN new
            ELSE IF run[t] = NoRun THEN NoRun ELSE [run[t] EXCEPT !.alone = FALSE]]
      /\ collection' = IF full THEN [p \in Pages |-> {}] ELSE collection
      /\ kept' = IF full THEN {} ELSE kept
  BY DEF Begin
<1>3. ~broken' => ~broken
                  /\ (status = "partial" /\ diff =>
                         /\ \A t \in Servers : ~(release[t] > release[s])
                         /\ ~Reverted(release[s]))
  BY DEF Begin
<1>4. full => ~diff
  BY DEF FromDiff
<1>5. diff => sha # NoSha /\ sha <= release[s] /\ git
  BY DEF FromDiff, Indexed
<1>6. /\ diff => todo = ChangedPages(sha, release[s]) /\ gone = DeletedPages(sha, release[s])
      /\ ~diff => todo = PagesOf(release[s]) /\ gone = {}
  BY DEF Todo, Gone
<1>7. solo => Resting
  BY DEF Resting, Runs
<1>8. ~broken => solo
  BY <1>2, HelpAssumption DEF HelpInv, Runs
<1> HIDE DEF full, diff, solo, todo, gone
<1>9. /\ new \in HelpRuns /\ new # NoRun /\ new.full = full /\ new.every = ~diff
      /\ new.git = git /\ new.todo = todo /\ new.gone = gone /\ new.touched = todo \cup gone
      /\ new.failed = FALSE /\ new.saved = FALSE /\ new.alone = solo
  <2> HIDE DEF every
  <2>1. /\ new \in HelpRuns /\ new.full = full /\ new.every = every
        /\ new.git = git /\ new.todo = todo /\ new.gone = gone /\ new.touched = todo \cup gone
        /\ new.failed = FALSE /\ new.saved = FALSE /\ new.alone = solo
    BY <1>1 DEF HelpRuns
  <2> QED
    BY <2>1, HelpAssumption DEF every
<1> HIDE DEF new
<1>10. run'[s] = new
  BY <1>2
<1>11. ASSUME NEW t \in Servers \ {s}, Runs(t)'
       PROVE  Runs(t) /\ run'[t] \in HelpRuns /\ ~run'[t].alone
  <2>1. Runs(t) /\ run'[t] = [run[t] EXCEPT !.alone = FALSE]
    BY <1>2, <1>11 DEF Runs
  <2>2. run[t] \in HelpRuns
    BY <2>1 DEF HelpInv, HelpTypes
  <2> QED
    BY <2>1, <2>2 DEF HelpRuns
<1>12. ASSUME solo, full \/ ~broken', NEW r \in HelpRuns, r = new
       PROVE  Underway(s, r)'
  <2>1. CASE full
    <3>1. collection' = [p \in Pages |-> {}]
      BY <1>2, <2>1
    <3> QED
      BY <1>2, <1>4, <1>6, <1>9, <1>12, <2>1, <3>1 DEF Underway, PagesOf, AnswerRests
  <2>2. CASE ~full
    <3>1. Settled /\ collection' = collection /\ kept' = kept
      BY <1>2, <1>3, <1>7, <1>12, <2>2 DEF HelpInv
    <3>2. CASE ~diff
      BY <1>2, <1>6, <1>9, <1>12, <2>2, <3>1, <3>2 DEF Underway, PagesOf, AnswerRests, Settled
    <3>3. CASE diff
      <4>1. /\ sha \in Releases /\ sha <= release[s] /\ release[s] \in Releases
            /\ Releases \subseteq Nat /\ sha # NoSha /\ git
        BY <1>5, <3>3, HelpAssumption DEF HelpInv, HelpTypes
      <4>2. /\ todo = ChangedPages(sha, release[s])
            /\ gone = DeletedPages(sha, release[s])
        BY <1>6, <3>3
      <4>3. /\ todo \subseteq PagesOf(release[s]) /\ gone \cap PagesOf(release[s]) = {}
            /\ \A p \in todo \cup gone : docs[release[s]][p] # docs[sha][p]
        BY <4>2 DEF ChangedPages, DeletedPages, PagesOf
      <4>4. ASSUME NEW p \in PagesOf(release[s]) \ todo
            PROVE  ReadsAs(p, release[s])
        <5>1. p \in Pages /\ docs[release[s]][p] = docs[sha][p] /\ p \in PagesOf(sha)
          BY <4>2 DEF ChangedPages, PagesOf
        <5>2. AsRecorded(p) /\ (status # "partial" => ReadsAs(p, sha))
          BY <3>1, <4>1, <5>1 DEF Settled
        <5>3. CASE status # "partial"
          BY <5>1, <5>2, <5>3 DEF ReadsAs
        <5>4. CASE status = "partial"
          <6>1. /\ \A t \in Servers : ~(release[t] > release[s])
                /\ ~Reverted(release[s])
            BY <1>3, <1>12, <2>2, <3>3, <5>4
          <6>2. ~Disturbed(p)
            <7> SUFFICES ASSUME NEW u \in Releases, sha < u, docs[u][p] # docs[sha][p],
                                NEW t \in Servers, u <= release[t]
                         PROVE  FALSE
              BY DEF Disturbed
            <7>1. u \in Nat /\ release[t] \in Nat /\ release[s] \in Nat
              BY <4>1 DEF HelpInv, HelpTypes
            <7>2. ~(release[t] > release[s])
              BY <6>1
            <7>3. u # release[s]
              BY <5>1
            <7>4. u < release[s]
              BY <7>1, <7>2, <7>3
            <7> QED
              BY <5>1, <6>1, <7>4 DEF Reverted
          <6> QED
            BY <5>1, <5>2, <6>2 DEF AsRecorded, ReadsAs
        <5> QED
          BY <5>3, <5>4
      <4>5. \A p \in PagesOf(sha) : AsRecorded(p)
        BY <3>1, <4>1 DEF Settled
      <4>6. \A p \in Pages : AnswerRests(p)
        BY <3>1 DEF Settled
      <4>7. /\ \A p \in PagesOf(sha)' : AsRecorded(p)'
            /\ \A p \in Pages : AnswerRests(p)'
            /\ \A p \in PagesOf(release[s])' \ todo : ReadsAs(p, release[s])'
        BY <1>2, <3>1, <4>4, <4>5, <4>6 DEF PagesOf, AnswerRests, AsRecorded, Disturbed, ReadsAs
      <4>8. /\ ~r.full /\ ~r.every /\ r.git /\ ~r.saved
            /\ r.todo = todo /\ r.gone = gone /\ r.touched = todo \cup gone
        <5>1. ~r.full /\ ~r.every /\ ~r.saved
          BY <1>9, <1>12, <2>2, <3>3
        <5>2. r.git
          BY <1>9, <1>12, <4>1
        <5>3. r.todo = todo /\ r.gone = gone /\ r.touched = todo \cup gone
          BY <1>9, <1>12
        <5> QED
          BY <5>1, <5>2, <5>3
      <4>9. /\ todo \subseteq PagesOf(release[s])' /\ gone \cap PagesOf(release[s])' = {}
            /\ sha' \in Releases /\ sha' <= release'[s]
            /\ \A p \in todo \cup gone : docs'[release'[s]][p] # docs'[sha'][p]
        BY <1>2, <4>1, <4>3 DEF PagesOf
      <4> QED
        BY <4>7, <4>8, <4>9 DEF Underway
    <3> QED
      BY <3>2, <3>3
  <2> QED
    BY <2>1, <2>2
<1>13. HelpTypes'
  <2>1. collection' = [p \in Pages |-> collection'[p]]
    BY <1>2 DEF HelpInv, HelpTypes
  <2>2. run' = [t \in Servers |-> run'[t]]
    BY <1>2
  <2>3. broken' \in BOOLEAN
    BY DEF Begin
  <2>4. \A t \in Servers : Runs(t)' => run'[t] \in HelpRuns
    BY <1>9, <1>10, <1>11
  <2> QED
    BY <1>2, <2>1, <2>2, <2>3, <2>4 DEF HelpInv, HelpTypes, Content
<1>14. solo => \A t \in Servers \ {s} : ~Runs(t)'
  BY <1>2 DEF Runs, solo
<1>15. Runs(s)'
  BY <1>9, <1>10 DEF Runs
<1>16. \A x, y \in Servers : Runs(x)' /\ run'[x].alone /\ Runs(y)' => x = y
  BY <1>9, <1>10, <1>11, <1>14
<1>17. ~broken' => \A x \in Servers : Runs(x)' => lock' = x /\ run'[x].alone
  BY <1>2, <1>3, <1>8, <1>9, <1>10, <1>14
<1>18. ASSUME NEW x \in Servers, Runs(x)', run'[x].alone, run'[x].full \/ ~broken'
       PROVE  Underway(x, run[x])'
  <2>1. x = s /\ solo /\ (full \/ ~broken')
    BY <1>9, <1>10, <1>11, <1>18
  <2> QED
    BY <1>9, <1>10, <1>12, <2>1
<1> QED
  BY <1>13, <1>15, <1>16, <1>17, <1>18 DEF HelpInv, Resting

\* A page is indexed, or a chunk of it fails.
LEMMA IndexStep ==
    ASSUME HelpInv, NEW s \in Servers, NEW p \in Pages, IndexPage(s, p)
    PROVE  HelpInv'
<1> DEFINE r == run[s]
           page == docs[release[s]][p]
<1>1. PICK removed \in BOOLEAN, stored \in BOOLEAN, ok \in BOOLEAN :
         /\ ok => stored
         /\ collection' = [collection EXCEPT
               ![p] = (IF removed THEN {} ELSE collection[p])
                      \cup (IF stored THEN {page} ELSE {})]
         /\ kept' = IF removed THEN kept \ {p} ELSE kept \cup {p}
         /\ Went(s, [r EXCEPT !.todo = @ \ {p}, !.failed = @ \/ ~ok])
  BY Zenon DEF IndexPage
<1>2. /\ Runs(s) /\ r \in HelpRuns /\ p \in r.todo
      /\ UNCHANGED <<docs, release, sha, status, lock, answer, broken, runs>>
  BY DEF IndexPage, HelpInv, HelpTypes
<1> DEFINE failed == r.failed \/ ~ok
<1>3. PICK new \in HelpRuns :
         /\ Went(s, new)
         /\ new.full = r.full /\ new.every = r.every /\ new.git = r.git /\ new.alone = r.alone
         /\ new.touched = r.touched /\ new.gone = r.gone /\ new.saved = r.saved
         /\ new.todo = r.todo \ {p} /\ (~new.failed => ~r.failed /\ ok)
  <2> DEFINE new == [r EXCEPT !.todo = @ \ {p}, !.failed = failed]
  <2>1. failed \in BOOLEAN
    BY <1>2 DEF HelpRuns
  <2>2. Went(s, new) /\ (~failed => ~r.failed /\ ok)
    BY <1>1
  <2> HIDE DEF failed, r
  <2>3. /\ new \in HelpRuns /\ new.git = r.git /\ new.full = r.full /\ new.every = r.every
        /\ new.alone = r.alone /\ new.touched = r.touched /\ new.gone = r.gone
        /\ new.saved = r.saved /\ new.todo = r.todo \ {p} /\ new.failed = failed
    BY <1>2, <2>1 DEF HelpRuns
  <2> QED
    BY <1>2, <2>2, <2>3
<1>4. /\ \A q \in Pages \ {p} :
            /\ collection'[q] = collection[q]
            /\ (q \in kept') <=> (q \in kept)
      /\ ok => /\ page \in collection'[p]
               /\ p \notin kept' => collection'[p] = {page}
  BY <1>1 DEF HelpInv, HelpTypes
<1>9. collection' = [q \in Pages |-> collection'[q]]
  BY <1>1 DEF HelpInv, HelpTypes
<1>7. ASSUME NEW q \in Pages \ {p}, NEW x, ReadsAs(q, x)
      PROVE  ReadsAs(q, x)'
  <2>1. docs' = docs
    BY <1>2
  <2>2. collection'[q] = collection[q] /\ (q \in kept' <=> q \in kept)
    BY <1>4
  <2> QED
    BY <1>7, <2>1, <2>2 DEF ReadsAs
<1>8. ok => ReadsAs(p, release[s])'
  BY <1>2, <1>4 DEF ReadsAs
<1>5. ASSUME Underway(s, r)
      PROVE  Underway(s, new)'
  <2>1. /\ p \in r.touched /\ p \in PagesOf(release[s]) /\ ~r.saved
    BY <1>2, <1>5 DEF Underway
  <2>2. ASSUME ~new.every, NEW q \in PagesOf(sha)
        PROVE  AsRecorded(q)'
    <3>1. CASE q # p
      BY <1>2, <1>3, <1>5, <1>7, <2>2, <3>1 DEF Underway, AsRecorded, Disturbed, PagesOf
    <3>2. CASE q = p
      <4>1. /\ sha \in Releases /\ sha <= release[s] /\ docs[release[s]][p] # docs[sha][p]
            /\ release[s] \in Releases
        BY <1>2, <1>3, <1>5, <2>1, <2>2 DEF Underway, HelpInv, HelpTypes
      <4>2. sha \in Nat /\ release[s] \in Nat /\ sha # release[s]
        BY <4>1, HelpAssumption
      <4>3. sha < release[s] /\ release[s] <= release[s]
        BY <4>1, <4>2
      <4> QED
        BY <1>2, <3>2, <4>1, <4>3 DEF AsRecorded, Disturbed
    <3> QED
      BY <3>1, <3>2
  <2>3. ASSUME ~new.failed, NEW q \in PagesOf(release[s]) \ new.todo
        PROVE  ReadsAs(q, release[s])'
    <3>1. release' = release /\ docs' = docs /\ q \in Pages /\ ~r.failed
      BY <1>2, <1>3, <2>3 DEF PagesOf
    <3>2. q # p => q \in PagesOf(release[s]) \ r.todo
      BY <1>3, <2>3
    <3>3. q # p => ReadsAs(q, release[s])
      BY <1>5, <3>1, <3>2 DEF Underway
    <3>4. q # p => ReadsAs(q, release[s])'
      BY <1>7, <3>1, <3>3
    <3>5. q = p => ReadsAs(q, release[s])'
      BY <1>3, <1>8, <2>3
    <3> QED
      BY <3>4, <3>5
  <2>4. ASSUME NEW q \in Pages \ new.touched
        PROVE  AnswerRests(q)'
    <3>1. q \in Pages \ r.touched /\ q # p
      BY <1>3, <2>1, <2>4
    <3>2. collection'[q] = collection[q] /\ answer' = answer
      BY <1>2, <1>4, <3>1
    <3>3. AnswerRests(q)
      BY <1>5, <3>1 DEF Underway
    <3> QED
      BY <3>2, <3>3 DEF AnswerRests
  <2>5. ASSUME r.full, NEW q \in Pages \ r.touched
        PROVE  collection'[q] = {}
    <3>1. q # p /\ collection[q] = {}
      BY <1>5, <2>1, <2>5 DEF Underway
    <3> QED
      BY <1>4, <3>1
  <2> QED
    BY <1>2, <1>3, <1>5, <2>1, <2>2, <2>3, <2>4, <2>5 DEF Underway, PagesOf
<1>6. HelpTypes => HelpTypes'
  <2>1. run' = [t \in Servers |-> run'[t]] /\ \A t \in Servers : run'[t] \in {run[t], new}
    BY <1>3 DEF Went, HelpInv, HelpTypes
  <2> QED
    BY <1>2, <1>9, <2>1 DEF HelpTypes, Runs, Content
<1> QED
  BY <1>2, <1>3, <1>5, <1>6, WentStep

LEMMA RemoveStep ==
    ASSUME HelpInv, NEW s \in Servers, NEW p \in Pages, RemovePage(s, p)
    PROVE  HelpInv'
<1> DEFINE r == run[s]
<1>1. PICK removed \in BOOLEAN, ok \in BOOLEAN :
         /\ collection' = IF removed THEN [collection EXCEPT ![p] = {}] ELSE collection
         /\ kept' = IF removed THEN kept \ {p} ELSE kept
         /\ Went(s, [r EXCEPT !.gone = @ \ {p}, !.failed = @ \/ ~ok])
  BY Zenon DEF RemovePage
<1>2. /\ Runs(s) /\ r \in HelpRuns /\ p \in r.gone /\ r.todo = {}
      /\ UNCHANGED <<docs, release, sha, status, lock, answer, broken, runs>>
  BY DEF RemovePage, HelpInv, HelpTypes
<1> DEFINE failed == r.failed \/ ~ok
<1>3. PICK new \in HelpRuns :
         /\ Went(s, new)
         /\ new.full = r.full /\ new.every = r.every /\ new.git = r.git /\ new.alone = r.alone
         /\ new.touched = r.touched /\ new.todo = r.todo /\ new.saved = r.saved
         /\ new.gone = r.gone \ {p} /\ (~new.failed => ~r.failed)
  <2> DEFINE new == [r EXCEPT !.gone = @ \ {p}, !.failed = failed]
  <2>1. failed \in BOOLEAN
    BY <1>2 DEF HelpRuns
  <2>2. Went(s, new) /\ (~failed => ~r.failed)
    BY <1>1
  <2> HIDE DEF failed, r
  <2>3. /\ new \in HelpRuns /\ new.git = r.git /\ new.full = r.full /\ new.every = r.every
        /\ new.alone = r.alone /\ new.touched = r.touched /\ new.todo = r.todo
        /\ new.saved = r.saved /\ new.gone = r.gone \ {p} /\ new.failed = failed
    BY <1>2, <2>1 DEF HelpRuns
  <2> QED
    BY <1>2, <2>2, <2>3
<1>4. /\ \A q \in Pages \ {p} :
            /\ collection'[q] = collection[q]
            /\ (q \in kept') <=> (q \in kept)
      /\ collection'[p] \in {collection[p], {}}
  BY <1>1 DEF HelpInv, HelpTypes
<1>9. collection' = [q \in Pages |-> collection'[q]]
  BY <1>1 DEF HelpInv, HelpTypes
<1>7. ASSUME NEW q \in Pages \ {p}, NEW x, ReadsAs(q, x)
      PROVE  ReadsAs(q, x)'
  <2>1. docs' = docs
    BY <1>2
  <2>2. collection'[q] = collection[q] /\ (q \in kept' <=> q \in kept)
    BY <1>4
  <2> QED
    BY <1>7, <2>1, <2>2 DEF ReadsAs
<1>5. ASSUME Underway(s, r)
      PROVE  Underway(s, new)'
  <2>1. /\ p \in r.touched /\ p \notin PagesOf(release[s]) /\ ~r.saved
    BY <1>2, <1>5 DEF Underway
  <2>2. ASSUME ~new.every, NEW q \in PagesOf(sha)
        PROVE  AsRecorded(q)'
    <3>1. CASE q # p
      BY <1>2, <1>3, <1>5, <1>7, <2>2, <3>1 DEF Underway, AsRecorded, Disturbed, PagesOf
    <3>2. CASE q = p
      <4>1. /\ sha \in Releases /\ sha <= release[s] /\ docs[release[s]][p] # docs[sha][p]
            /\ release[s] \in Releases
        BY <1>2, <1>3, <1>5, <2>1, <2>2 DEF Underway, HelpInv, HelpTypes
      <4>2. sha \in Nat /\ release[s] \in Nat /\ sha # release[s]
        BY <4>1, HelpAssumption
      <4>3. sha < release[s] /\ release[s] <= release[s]
        BY <4>1, <4>2
      <4> QED
        BY <1>2, <3>2, <4>1, <4>3 DEF AsRecorded, Disturbed
    <3> QED
      BY <3>1, <3>2
  <2>3. ASSUME ~new.failed, NEW q \in PagesOf(release[s]) \ new.todo
        PROVE  ReadsAs(q, release[s])'
    <3>1. release' = release /\ docs' = docs /\ q \in Pages /\ ~r.failed
      BY <1>2, <1>3, <2>3 DEF PagesOf
    <3>2. q # p => q \in PagesOf(release[s]) \ r.todo
      BY <1>3, <2>3
    <3>3. q # p => ReadsAs(q, release[s])
      BY <1>5, <3>1, <3>2 DEF Underway
    <3>4. q # p => ReadsAs(q, release[s])'
      BY <1>7, <3>1, <3>3
    <3>5. q # p
      BY <2>1, <2>3
    <3> QED
      BY <3>4, <3>5
  <2>4. ASSUME NEW q \in Pages \ new.touched
        PROVE  AnswerRests(q)'
    <3>1. q \in Pages \ r.touched /\ q # p
      BY <1>3, <2>1, <2>4
    <3>2. collection'[q] = collection[q] /\ answer' = answer
      BY <1>2, <1>4, <3>1
    <3>3. AnswerRests(q)
      BY <1>5, <3>1 DEF Underway
    <3> QED
      BY <3>2, <3>3 DEF AnswerRests
  <2>5. ASSUME r.full, NEW q \in Pages \ r.touched
        PROVE  collection'[q] = {}
    <3>1. q # p /\ collection[q] = {}
      BY <1>5, <2>1, <2>5 DEF Underway
    <3> QED
      BY <1>4, <3>1
  <2> QED
    BY <1>2, <1>3, <1>5, <2>1, <2>2, <2>3, <2>4, <2>5 DEF Underway, PagesOf
<1>6. HelpTypes => HelpTypes'
  <2>1. run' = [t \in Servers |-> run'[t]] /\ \A t \in Servers : run'[t] \in {run[t], new}
    BY <1>3 DEF Went, HelpInv, HelpTypes
  <2> QED
    BY <1>2, <1>9, <2>1 DEF HelpTypes, Runs, Content
<1> QED
  BY <1>2, <1>3, <1>5, <1>6, WentStep

LEMMA SaveStep ==
    ASSUME HelpInv, NEW s \in Servers, SaveState(s)
    PROVE  HelpInv'
<1> DEFINE r == run[s]
<1>1. /\ Runs(s) /\ r \in HelpRuns /\ ~r.saved /\ r.todo = {} /\ r.gone = {}
      /\ UNCHANGED <<docs, release, collection, kept, lock, answer, broken, runs>>
      /\ Went(s, [r EXCEPT !.saved = TRUE])
  BY DEF SaveState, HelpInv, HelpTypes
<1>2. /\ r.failed => sha' = sha /\ status' = "partial"
      /\ ~r.failed => sha' \in {release[s], NoSha} /\ status' = "completed"
      /\ ~r.failed /\ r.git => sha' = release[s]
  BY DEF SaveState, Advances
<1>3. PICK new \in HelpRuns :
         /\ Went(s, new)
         /\ new.full = r.full /\ new.every = r.every /\ new.git = r.git /\ new.alone = r.alone
         /\ new.touched = r.touched /\ new.todo = r.todo /\ new.saved
         /\ new.gone = r.gone /\ new.failed = r.failed
  <2> DEFINE new == [r EXCEPT !.saved = TRUE]
  <2> HIDE DEF r
  <2>1. /\ new \in HelpRuns /\ new.git = r.git /\ new.full = r.full /\ new.every = r.every
        /\ new.alone = r.alone /\ new.touched = r.touched /\ new.todo = r.todo
        /\ new.saved /\ new.gone = r.gone /\ new.failed = r.failed
    BY <1>1 DEF HelpRuns
  <2> QED
    BY <1>1, <2>1
<1>4. ASSUME Underway(s, r)
      PROVE  Underway(s, new)'
  <2>1. CASE r.failed
    BY <1>1, <1>2, <1>3, <1>4, <2>1
       DEF Underway, PagesOf, AnswerRests, AsRecorded, Disturbed, ReadsAs
  <2>2. CASE ~r.failed
    <3>1. \A p \in PagesOf(release[s]) : ReadsAs(p, release[s])
      BY <1>1, <1>4, <2>2 DEF Underway
    <3>2. ~r.every => sha' = release[s] /\ release[s] \in Releases
      BY <1>2, <1>4, <2>2 DEF Underway, HelpInv, HelpTypes
    <3>3. ~r.every => \A p \in PagesOf(sha)' : AsRecorded(p)'
      BY <1>1, <3>1, <3>2 DEF AsRecorded, PagesOf, ReadsAs
    <3> QED
      BY <1>1, <1>2, <1>3, <1>4, <2>2, <3>1, <3>2, <3>3
         DEF Underway, PagesOf, AnswerRests, ReadsAs
  <2> QED
    BY <2>1, <2>2
<1>5. HelpTypes => HelpTypes'
  <2>1. run' = [t \in Servers |-> run'[t]] /\ \A t \in Servers : run'[t] \in {run[t], new}
    BY <1>3 DEF Went, HelpInv, HelpTypes
  <2>2. sha' \in Releases \cup {NoSha}
    BY <1>2 DEF HelpInv, HelpTypes
  <2> QED
    BY <1>1, <2>1, <2>2 DEF HelpTypes, Runs, Content
<1> QED
  BY <1>1, <1>3, <1>4, <1>5, WentStep

\* A run that ends, and the answers on the pages it touched.
LEMMA FinishStep ==
    ASSUME HelpInv, NEW s \in Servers, Finish(s)
    PROVE  HelpInv'
<1> DEFINE r == run[s]
<1>1. /\ Runs(s) /\ r \in HelpRuns /\ r.saved
      /\ UNCHANGED <<docs, release, collection, kept, sha, status, runs>>
      /\ answer' = [p \in Pages |-> IF p \in r.touched THEN {} ELSE answer[p]]
      /\ run' = [run EXCEPT ![s] = NoRun]
  BY DEF Finish, HelpInv, HelpTypes
<1>2. /\ run'[s] = NoRun /\ \A t \in Servers \ {s} : run'[t] = run[t]
      /\ run' = [t \in Servers |-> run'[t]]
  BY <1>1 DEF HelpInv, HelpTypes
<1>3. /\ broken' \in BOOLEAN
      /\ ~broken' => ~(r.every /\ r.failed) /\ ((r.full /\ r.alone) \/ ~broken)
  BY <1>1 DEF Finish, HelpInv, HelpTypes, HelpRuns
<1>4. ~broken' => r.alone
  BY <1>1, <1>3 DEF HelpInv
<1>5. ASSUME NEW t \in Servers, Runs(t)'
      PROVE  t # s /\ Runs(t) /\ ~r.alone /\ ~run[t].alone
  BY <1>1, <1>2, <1>5 DEF Runs, HelpInv
<1>6. ASSUME ~broken'
      PROVE  Settled'
  <2>1. Underway(s, r)
    BY <1>1, <1>3, <1>4, <1>6 DEF HelpInv
  <2>2. \A p \in Pages : AnswerRests(p)'
    <3> SUFFICES ASSUME NEW p \in Pages PROVE AnswerRests(p)'
      OBVIOUS
    <3>1. answer'[p] = IF p \in r.touched THEN {} ELSE answer[p]
      BY <1>1
    <3>2. p \notin r.touched => AnswerRests(p)
      BY <2>1 DEF Underway
    <3> QED
      BY <1>1, <3>1, <3>2 DEF AnswerRests
  <2>3. CASE r.failed
    <3>1. ~r.every /\ status = "partial" /\ \A p \in PagesOf(sha) : AsRecorded(p)
      BY <1>1, <1>3, <1>6, <2>1, <2>3 DEF Underway
    <3> QED
      BY <1>1, <2>2, <3>1 DEF Settled, AsRecorded, Disturbed, PagesOf, ReadsAs
  <2>4. CASE ~r.failed
    <3>1. /\ status = "completed" /\ sha \in {release[s], NoSha}
          /\ \A p \in PagesOf(release[s]) : ReadsAs(p, release[s])
      BY <1>1, <2>1, <2>4 DEF Underway
    <3> QED
      BY <1>1, <2>2, <3>1 DEF Settled, AsRecorded, Disturbed, PagesOf, ReadsAs
  <2> QED
    BY <2>3, <2>4
<1>7. HelpTypes'
  BY <1>1, <1>2, <1>3, <1>5 DEF HelpInv, HelpTypes, Content
<1> QED
  BY <1>4, <1>5, <1>6, <1>7, <1>2 DEF HelpInv

\* A run that breaks off: until the next full scan nothing is promised.
LEMMA BreakOffStep ==
    ASSUME HelpInv, NEW s \in Servers, BreakOff(s)
    PROVE  HelpInv'
<1>1. /\ Runs(s) /\ broken' = TRUE /\ run' = [run EXCEPT ![s] = NoRun]
      /\ UNCHANGED <<docs, release, collection, kept, sha, answer, runs>>
  BY DEF BreakOff
<1>2. /\ run'[s] = NoRun /\ \A t \in Servers \ {s} : run'[t] = run[t]
      /\ run' = [t \in Servers |-> run'[t]]
  BY <1>1 DEF HelpInv, HelpTypes
<1>3. \A t \in Servers : Runs(t)' => t # s /\ Runs(t) /\ ~run'[t].alone
  BY <1>1, <1>2 DEF Runs, HelpInv
<1>4. HelpTypes'
  BY <1>1, <1>2, <1>3 DEF HelpInv, HelpTypes, Content
<1> QED
  BY <1>1, <1>3, <1>4 DEF HelpInv

LEMMA ExpiryStep ==
    ASSUME HelpInv, LockExpires
    PROVE  HelpInv'
<1>1. /\ UNCHANGED <<docs, release, collection, kept, sha, status, run, answer, runs>>
      /\ broken' \in BOOLEAN
      /\ ~broken' => ~broken /\ \A s \in Servers : ~Runs(s)
  BY DEF LockExpires, HelpInv, HelpTypes
<1>2. HelpTypes'
  BY <1>1 DEF HelpInv, HelpTypes, Content, Runs
<1>3. \A s \in Servers : Underway(s, run[s]) => Underway(s, run[s])'
  BY <1>1 DEF Underway, PagesOf, AnswerRests, AsRecorded, Disturbed, ReadsAs
<1>4. Settled => Settled'
  BY <1>1 DEF Settled, PagesOf, AnswerRests, AsRecorded, Disturbed, ReadsAs
<1> QED
  BY <1>1, <1>2, <1>3, <1>4 DEF HelpInv, Runs, Resting

\* A container that is replaced: what was disturbed stays so.
LEMMA RestartStep ==
    ASSUME HelpInv, NEW s \in Servers, Restart(s)
    PROVE  HelpInv'
<1>1. PICK w \in Releases :
         /\ w >= release[s] /\ release' = [release EXCEPT ![s] = w]
         /\ run' = [run EXCEPT ![s] = NoRun]
         /\ UNCHANGED <<docs, collection, kept, sha, status, lock, answer, runs>>
         /\ (~broken' => ~broken /\ ~Runs(s)) /\ broken' \in BOOLEAN
  BY DEF Restart, HelpInv, HelpTypes
<1>2. /\ run'[s] = NoRun /\ run' = [t \in Servers |-> run'[t]]
      /\ \A t \in Servers \ {s} : run'[t] = run[t] /\ release'[t] = release[t]
      /\ release' \in [Servers -> Releases] /\ release'[s] = w
  BY <1>1 DEF HelpInv, HelpTypes
<1>3. \A t \in Servers : Runs(t)' => t # s /\ Runs(t)
  BY <1>2 DEF Runs
<1>4. ASSUME NEW p \in Pages, Disturbed(p)
      PROVE  Disturbed(p)'
  <2>1. PICK u \in Releases, t \in Servers :
           sha < u /\ docs[u][p] # docs[sha][p] /\ u <= release[t]
    BY <1>4 DEF Disturbed
  <2>2. u \in Nat /\ release[t] \in Nat /\ w \in Nat
    BY HelpAssumption DEF HelpInv, HelpTypes
  <2>3. u <= release'[t]
    BY <1>1, <1>2, <2>1, <2>2
  <2> QED
    BY <1>1, <2>1, <2>3 DEF Disturbed
<1>5. ASSUME NEW t \in Servers, t # s, Underway(t, run[t])
      PROVE  Underway(t, run[t])'
  <2>1. ~run[t].every => \A p \in PagesOf(sha)' : AsRecorded(p)'
    BY <1>1, <1>4, <1>5 DEF Underway, AsRecorded, PagesOf, ReadsAs
  <2> QED
    BY <1>1, <1>2, <1>5, <2>1 DEF Underway, PagesOf, AnswerRests, ReadsAs
<1>6. Settled => Settled'
  BY <1>1, <1>4 DEF Settled, PagesOf, AnswerRests, AsRecorded, ReadsAs
<1>7. HelpTypes'
  BY <1>1, <1>2, <1>3 DEF HelpInv, HelpTypes, Content
<1>8. ~broken' /\ Resting' => Settled'
  BY <1>1, <1>2, <1>6 DEF HelpInv, Resting, Runs
<1> QED
  BY <1>1, <1>2, <1>3, <1>5, <1>7, <1>8 DEF HelpInv

\* An answer is approved on a page as the search finds it, or taken back.
LEMMA QueryStep ==
    ASSUME HelpInv, \/ \E p \in Pages : ApproveFaq(p) \/ RejectFaq(p)
                    \/ UNCHANGED helpVars
    PROVE  HelpInv'
<1>1. /\ UNCHANGED <<docs, release, collection, kept, sha, status, lock, run, broken, runs>>
      /\ answer' = [p \in Pages |-> answer'[p]]
      /\ \A p \in Pages : answer'[p] \in {answer[p], {}, collection[p]}
  BY DEF ApproveFaq, RejectFaq, helpVars, HelpInv, HelpTypes
<1>2. HelpTypes'
  BY <1>1 DEF HelpInv, HelpTypes, Content, Runs
<1>3. \A p \in Pages : AnswerRests(p) => AnswerRests(p)'
  BY <1>1 DEF AnswerRests
<1>4. \A s \in Servers : Underway(s, run[s]) => Underway(s, run[s])'
  BY <1>1, <1>3 DEF Underway, PagesOf, AsRecorded, Disturbed, ReadsAs
<1>5. Settled => Settled'
  BY <1>1, <1>3 DEF Settled, PagesOf, AsRecorded, Disturbed, ReadsAs
<1> QED
  BY <1>1, <1>2, <1>4, <1>5 DEF HelpInv, Runs, Resting

\* However many servers of however many releases: what the search finds once indexing
\* is reported completed, and what an approved answer rests on.
THEOREM CompletedStaysComplete == HelpSpec => []CompletedIsComplete
<1>1. HelpInit => HelpInv
  <2> SUFFICES ASSUME HelpInit PROVE HelpInv
    OBVIOUS
  <2>1. \A s \in Servers : ~Runs(s)
    BY DEF HelpInit, Runs
  <2>2. Settled
    BY DEF HelpInit, Settled, AnswerRests, ReadsAs
  <2>3. HelpTypes
    BY <2>1, HelpAssumption DEF HelpInit, HelpTypes
  <2> QED
    BY <2>1, <2>2, <2>3 DEF HelpInv
<1>2. HelpInv /\ [HelpNext]_helpVars => HelpInv'
  BY BeginStep, IndexStep, RemoveStep, SaveStep, FinishStep, BreakOffStep, RestartStep,
     ExpiryStep, QueryStep DEF HelpNext
<1>3. HelpInv => CompletedIsComplete
  BY DEF HelpInv, Settled, CompletedIsComplete, AnswerRests, ReadsAs
<1> QED
  BY <1>1, <1>2, <1>3, PTL DEF HelpSpec

=============================================================================
