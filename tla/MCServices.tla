----------------------------- MODULE MCServices -----------------------------
(***************************************************************************)
(* Ten services in one run: sign-in, administration, visibility, review,   *)
(* students and classes, quotas, the progress stream, mail events, the     *)
(* index of the help pages and grading schemes with their reports.  They   *)
(* share no state here; a behaviour follows one of them, the others rest.  *)
(***************************************************************************)
EXTENDS SignIn, Administration, Visibility, Review, Roster, Quotas,
        ProgressStream, MailEvents, HelpIndex, Reports, TLC

CONSTANTS a1, a2, b1, b2, c1, c2, d1, d2, root, Parts

VARIABLE part

-----------------------------------------------------------------------------
MCSeats == [h \in Homes |-> 1]

\* Two teams of one institution, one below the other, and one of another.
MCCampusOf == "dept" :> "home" @@ "group" :> "home" @@ "other" :> "away"
MCBelow == "dept" :> {"dept", "group"} @@ "group" :> {"group"} @@ "other" :> {"other"}

MCQuotas ==
    "small" :> [documents |-> 1, questions |-> 2, exams |-> 1, submissions |-> 1]
    @@ "big" :> [documents |-> Unlimited, questions |-> 3, exams |-> Unlimited,
                 submissions |-> 2]
MCFirstQuota == [documents |-> 2, questions |-> 3]

\* One message that bounces twice, one that is reported as spam after it was
\* sent, and an event that cannot be told from others.
Event(mail, type, address, hard) ==
    [mail |-> mail, type |-> type, address |-> address, hard |-> hard]
MCMailEvents ==
    {Event("first", "bounced", "pupil", TRUE), Event("first", "bounced", "pupil", FALSE),
     Event("second", "complained", "pupil", FALSE), Event("second", "sent", "pupil", FALSE),
     Event(NoMail, "bounced", "pupil", TRUE)}

MCScales == {[stepped |-> TRUE, pass |-> {0, 1}], [stepped |-> FALSE, pass |-> {}]}
MCPupilSchool == [p \in Pupils |-> "school"]

-----------------------------------------------------------------------------
\* A part at rest: nobody serves, nothing is there.
Empty == [x \in {} |-> 0]
SignRests ==
    /\ doors = {} /\ account = 0 /\ device = Empty /\ link = Empty /\ recent = {}
    /\ letter = Empty /\ codes = {} /\ request = Empty /\ claims = Empty
AdminRests ==
    /\ clerks = {} /\ person = [u \in People |-> NoOne] /\ roles = {} /\ desk = Empty
    /\ orphaned = {}
SightRests == kind = 0 /\ resource = Nothing /\ viewer = Empty
ReviewRests ==
    /\ card = 0 /\ second = FALSE /\ trail = 0 /\ hand = Empty /\ seen = Empty
    /\ approval = 0 /\ died = FALSE
RosterRests ==
    /\ enrolled = {} /\ className = Empty /\ classMember = {} /\ import = Empty
QuotaRests == QuotaInit /\ plan = "small" /\ columns = FirstQuota
StreamRests ==
    /\ row = 0 /\ celery = 0 /\ completed = FALSE /\ registered = NoStream
    /\ stream = Empty
MailRests ==
    /\ mailers = {} /\ outbox = {} /\ answered = {} /\ recorded = Empty
    /\ suppressed = Empty /\ serving = Empty /\ failures = 0
HelpRests ==
    /\ docs = 0 /\ release = 0 /\ collection = 0 /\ kept = {} /\ sha = 0 /\ status = "idle"
    /\ lock = 0 /\ run = 0 /\ answer = 0 /\ broken = FALSE /\ runs = 0
ReportsRest ==
    /\ gradingScheme = [g \in SchemeRows |-> NoScheme]
    /\ schoolDefault = [c \in Schools |-> NoScheme] /\ paper = [x \in Papers |-> NoPaper]
    /\ result = 0 /\ members = 0 /\ task = 0

MCInit ==
    /\ part \in Parts
    /\ IF part = "sign-in" THEN SignInit ELSE SignRests
    /\ IF part = "users" THEN AdminInit ELSE AdminRests
    /\ IF part = "sight" THEN SightInit ELSE SightRests
    /\ IF part = "review" THEN ReviewInit ELSE ReviewRests
    /\ IF part = "roster" THEN RosterInit ELSE RosterRests
    /\ IF part = "quotas" THEN QuotaInit ELSE QuotaRests
    /\ IF part = "stream" THEN StreamInit ELSE StreamRests
    /\ IF part = "mail" THEN MailInit ELSE MailRests
    /\ IF part = "help" THEN HelpInit ELSE HelpRests
    /\ IF part = "reports" THEN ReportsInit ELSE ReportsRest

MCNext ==
    /\ UNCHANGED part
    /\ IF part = "sign-in" THEN SignNext ELSE UNCHANGED signVars
    /\ IF part = "users" THEN AdminNext ELSE UNCHANGED adminVars
    /\ IF part = "sight" THEN SightNext ELSE UNCHANGED sightVars
    /\ IF part = "review" THEN ReviewNext ELSE UNCHANGED reviewVars
    /\ IF part = "roster" THEN RosterNext ELSE UNCHANGED rosterVars
    /\ IF part = "quotas" THEN QuotaNext ELSE UNCHANGED quotaVars
    /\ IF part = "stream" THEN StreamNext ELSE UNCHANGED streamVars
    /\ IF part = "mail" THEN MailNext ELSE UNCHANGED mailVars
    /\ IF part = "help" THEN HelpNext ELSE UNCHANGED helpVars
    /\ IF part = "reports" THEN ReportsNext ELSE UNCHANGED reportVars

MCVars == <<part, signVars, adminVars, sightVars, reviewVars, rosterVars, quotaVars,
            streamVars, mailVars, helpVars, reportVars>>
MCSpec == MCInit /\ [][MCNext]_MCVars

-----------------------------------------------------------------------------
Symmetry == Permutations({a1, a2}) \cup Permutations({b1, b2})
            \cup Permutations({c1, c2}) \cup Permutations({d1, d2})

\* Bounds, where two processes at once would multiply the states: they get the
\* case in which they meet, one alone gets all the others.
SignBound ==
    Cardinality({x \in DOMAIN device : device[x] # "none"})
    + Cardinality({x \in DOMAIN link : link[x] # "none"})
    + Cardinality({x \in DOMAIN letter : letter[x] # "none"})
        <= IF Cardinality(doors) = 1 THEN 3 ELSE 2

AdminBound ==
    Cardinality(clerks) = 2 =>
        \A u \in Known : /\ person[u].home = "school"
                         /\ person[u].status # "suspended" /\ orphaned = {}
                         /\ Cardinality(person[u].roles) <= 2 /\ "own" \notin roles

SightBound ==
    /\ viewer[root] = [campus |-> "home", teams |-> {}, readAll |-> FALSE, manages |-> FALSE]
    /\ \E v \in Viewers \ {root} :
          ~viewer[v].readAll /\ ~viewer[v].manages
    /\ \A v \in Viewers :
          /\ Cardinality(viewer[v].teams) <= 1
          /\ resource = Nothing => ~viewer[v].readAll /\ ~viewer[v].manages

\* What two processes do is not so (README, section 4).
ReviewBound == Cardinality(Serving) <= 1 /\ \A v \in DOMAIN seen : seen[v] = 0

RosterBound ==
    /\ \A i \in Imports : Len(import[i].payload) = 1 => Hints(i) # {}
    /\ (\E i \in Imports : import[i].touched \/ import[i].stage = "failed") =>
          \E i \in Imports : import[i].stage = "queued"
    /\ Cardinality(UNION {Hints(i) : i \in Imports}) <= 1
    /\ Cardinality(NamesInUse) <= 1
    /\ \A i \in Imports : enrolled \subseteq {r.student : r \in Range(import[i].payload)}

\* Each kind of resource by itself.
QuotaBound ==
    /\ documents <= 3 /\ questions <= 4
    /\ Cardinality({k \in {"documents", "questions", "results"} :
           CASE k = "documents" ->
                    documents > 0 \/ Accepted("upload") # {} \/ beyond["documents"] > 0
             [] k = "questions" ->
                    questions > 0 \/ Accepted("generate") # {} \/ beyond["questions"] > 0
             [] k = "results" ->
                    \/ Accepted("import") # {} \/ evaluated # {}
                    \/ \E e \in EvalExams : submitted[e] # {}
                    \/ beyond["exams"] + beyond["submissions"] > 0}) <= 1

HelpBound ==
    LET answers == {p \in Pages : answer[p] # {}}
    IN  /\ ~(broken /\ Resting /\ runs = MaxRuns)
        /\ (\A s \in Servers : Runs(s)) => docs[0] = docs[1] /\ answers = {}
        /\ answers # {} => ~broken /\ Cardinality(answers) = 1
        /\ Cardinality(kept) <= 1 /\ (kept # {} => ~broken)

Stepped == {g \in SchemeRows : Exists(g) /\ gradingScheme[g].scale.stepped}
Saved == {g \in SchemeRows : gradingScheme[g] # NoScheme}
Removes(w) == task[w].kind = "delete" \/ (task[w].kind = "save" /\ task[w].flag = TRUE)
Plain(w) == task[w].kind # "save" \/ ~task[w].scale.stepped
ReportsBound ==
    LET busy == {w \in Requests : task[w] # NoTask}
        graded == \E x \in Papers : DOMAIN result[x] # {}
    IN  /\ graded => busy = {} /\ Cardinality(Saved) <= 1
        /\ members # {} => graded
        /\ (\E x \in Sat : ~paper[x].draft) => graded
        /\ Cardinality(busy) = 2 =>
              /\ \A x \in Sat : ~paper[x].moved /\ Cardinality(Saved) <= 1
              /\ \E w \in Requests : Removes(w)
              /\ Stepped = {} /\ \A w \in Requests : Plain(w)
        /\ Stepped # {} \/ Sat # {} => Cardinality(Saved) <= 1
        /\ \E g \in SchemeRows : Exists(g) => gradingScheme[g].owner # System
        /\ \E c \in Schools : schoolDefault[c] = NoScheme

Bound ==
    /\ part = "sign-in" => SignBound
    /\ part = "users" => AdminBound
    /\ part = "sight" => SightBound
    /\ part = "review" => ReviewBound
    /\ part = "roster" => RosterBound
    /\ part = "quotas" => QuotaBound
    /\ part = "help" => HelpBound
    /\ part = "reports" => ReportsBound

=============================================================================
