---------------------------- MODULE MCComponents ----------------------------
(***************************************************************************)
(* Small components in one run: the pure algorithms AutoCompose, Marking   *)
(* and QuizExport over bounded inputs, Subscriptions, OrgUnits, Tags,      *)
(* RoundTrip and ResultFiles.  They share no state; a behaviour follows    *)
(* one of them, the others rest.                                           *)
(***************************************************************************)
EXTENDS AutoCompose, QuizExport, Subscriptions, OrgUnits, Tags, RoundTrip,
        ResultFiles, TLC

CONSTANTS x1, x2, x3, k1, k2, k3, a, b, i1, i2, Parts

VARIABLE part

-----------------------------------------------------------------------------
\* 4 units are 100 %; grades between 0 and 6.0 in steps of a half or a whole.
Segments == [from : {0, 1, 2}, to : {1, 2, 4}, fromGrade : {10, 40},
             toGrade : {40, 45, 60}]
Steps == [min : {0, 1, 3}, label : {"high", "low"}, passing : BOOLEAN]

MCSchemes ==
    [type : {"linear_segments"}, segments : {{s, t} : s, t \in Segments},
     round : {0, 5}]
    \cup [type : {"linear"}, from : {0, 1}, to : {1, 3}, fromGrade : {0, 10},
          toGrade : {0, 60}, round : {0, 5, 10}]
    \cup [type : {"stepped"}, steps : {S \in SUBSET Steps : Cardinality(S) <= 3}]

MCPercentages == -1..5

Question == {[points |-> 2, minutes |-> 1, bloom |-> 1, difficulty |-> "easy"],
             [points |-> 3, minutes |-> 0, bloom |-> 2, difficulty |-> "easy"],
             [points |-> 3, minutes |-> Missing, bloom |-> 1, difficulty |-> "hard"],
             [points |-> 5, minutes |-> 3, bloom |-> Missing, difficulty |-> "hard"],
             [points |-> 1, minutes |-> 2, bloom |-> 2, difficulty |-> "hard"]}
MCPools == UNION {[1..n -> Question] : n \in 1..4}

NoShares == [x \in {} |-> 0]
MCGoals == [points : {Missing, 3, 6, 8}, minutes : {Missing, 3, 4},
            bloom : {NoShares, (1 :> 50) @@ (2 :> 50)},
            difficulty : {NoShares, ("easy" :> 70) @@ ("hard" :> 30)}]

\* The first question may look like the second, and may have been reworded.
MCOrigin == "first" :> "one" @@ "second" :> "two"
MCLikenesses ==
    {<<"first", "one">> :> d @@ <<"first", "two">> :> e
        @@ <<"second", "two">> :> 4 @@ <<"second", "one">> :> Far :
        d \in {Far, 2, 3, 4}, e \in {1, 2, 3}}

MCTierOf == ("basic" :> "starter") @@ ("large" :> "enterprise")

-----------------------------------------------------------------------------
\* A part at rest.
ComposeRests ==
    /\ goal = [points |-> Missing, minutes |-> Missing, bloom |-> NoShares,
               difficulty |-> NoShares]
    /\ pool = <<>> /\ chosen = <<>> /\ done = FALSE
QuizRests ==
    /\ question = [type |-> "true_false", listed |-> Truths, correct |-> {}]
    /\ ticked = {}
BillingRests == BillingInit /\ ~lecturer
OrgRests ==
    /\ servers = {} /\ unborn = {} /\ membership = {}
    /\ unit = NoShares /\ home = NoShares /\ request = [w \in Servers |-> Idle]
    /\ shared = [x \in Members |-> NoUnit]
TagsRest ==
    /\ tags = NoShares /\ links = {} /\ moverCampus = Null
    /\ campus = [i \in Questions \cup Documents |-> Null]
RoundRests ==
    /\ position = NoShares /\ refs = NoShares /\ quizzes = <<>> /\ faithful = {}
    /\ sync = NoShares /\ gone = NoShares /\ crossed = {} /\ filed = {} /\ edits = 0
FilesRest ==
    /\ likeness \in MCLikenesses
    /\ likeness[<<"first", "one">>] = Far /\ likeness[<<"first", "two">>] = 1
    /\ taken = <<>> /\ stored = {} /\ regular = TRUE /\ listed = {}

MCInit ==
    /\ part \in Parts
    /\ MarkingInit
    /\ IF part = "compose" THEN ComposeInit ELSE ComposeRests
    /\ IF part = "quiz" THEN ExportInit ELSE QuizRests
    /\ IF part = "billing" THEN BillingInit ELSE BillingRests
    /\ IF part = "units" THEN OrgInit /\ servers \in {{"one"}, {"one", "two"}} ELSE OrgRests
    /\ IF part = "tags" THEN TagsInit ELSE TagsRest
    /\ IF part = "round trip" THEN RoundInit ELSE RoundRests
    /\ IF part = "files" THEN FilesInit ELSE FilesRest

MCNext ==
    /\ UNCHANGED part
    /\ IF part = "compose" THEN ComposeNext ELSE UNCHANGED composeVars
    /\ CASE part = "scheme" -> scheme = Null /\ SaveScheme
         [] part = "answer" -> GradeAnswer
         [] OTHER -> UNCHANGED markingVars
    /\ IF part = "quiz" THEN Tick ELSE UNCHANGED exportVars
    /\ IF part = "billing" THEN BillingNext ELSE UNCHANGED billingVars
    /\ IF part = "units" THEN OrgNext ELSE UNCHANGED orgVars
    /\ IF part = "tags" THEN TagsNext ELSE UNCHANGED tagVars
    /\ IF part = "round trip" THEN RoundNext ELSE UNCHANGED roundVars
    /\ IF part = "files" THEN FilesNext ELSE UNCHANGED fileVars

MCVars == <<part, composeVars, markingVars, exportVars, billingVars, orgVars, tagVars,
            roundVars, fileVars>>
MCSpec == MCInit /\ [][MCNext]_MCVars

-----------------------------------------------------------------------------
Symmetry == Permutations({k1, k2, k3}) \cup Permutations({a, b}) \cup Permutations({i1, i2})

\* Bounds: with an excuse only the quotas are left to check; two processes get
\* two units, which have a member or a document; documents and prompts meet two
\* tags; three tags are of one institution; while a request to synchronize waits
\* no answers are filed and the exam has had at most one change, and two of them
\* get a scorable exam.
Bound ==
    /\ excuses = {} \/ emitted <= 3
    /\ OneServer \/ Cardinality(Units \ unborn) <= 2
    /\ OneServer \/ membership = {} \/ \A x \in Members : shared[x] = NoUnit
    /\ (\E x \in links : x[1] \notin Questions) =>
          DOMAIN tags # Tags /\ Cardinality(links) <= 2
    /\ DOMAIN tags = Tags =>
          /\ Cardinality({campus[i] : i \in DOMAIN campus}) = 1
          /\ Cardinality({tags[t].campus : t \in Tags}) = 1
    /\ DOMAIN sync # {} => filed = {} /\ edits <= 1
    /\ Cardinality(DOMAIN sync) = 2 => Placed \cap Unscorable = {}

=============================================================================
