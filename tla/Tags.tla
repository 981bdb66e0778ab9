-------------------------------- MODULE Tags --------------------------------
(***************************************************************************)
(* Tags of institutions (backend/models/tag.py, backend/api/tags.py,       *)
(* backend/utils/document_tags.py) and what becomes of them when their     *)
(* creator moves to another institution                                    *)
(* (backend/services/user_institution_transfer_service.py).                *)
(*                                                                         *)
(* Each handler is one transaction.  Names that differ in case are one     *)
(* name.  Global and personal tags never meet these and are left out, so   *)
(* are the permissions; one user, the mover, is ever transferred.  Links of*)
(* prompts belong to the premium package: their table is external.         *)
(***************************************************************************)
EXTENDS FiniteSets

CONSTANTS
    Tags,        \* primary keys
    TagNames,
    Kinds,       \* of "content" and "prompt"
    Campuses,    \* institutions
    Questions, Documents, Prompts

VARIABLES
    tags,        \* the rows, a function on their keys
    links,       \* question_tags, document_tags, prompt_tags: <<item, tag>>
    campus,      \* institution of each question and document
    moverCampus  \* users.institution_id of the mover

tagVars == <<tags, links, campus, moverCampus>>

Items == Questions \cup Documents \cup Prompts

TagRows == [name : TagNames, kind : Kinds, campus : Campuses, mine : BOOLEAN,
            archived : BOOLEAN]

TagsInit ==
    /\ tags = [t \in {} |-> 0]
    /\ links = {}
    /\ campus \in [Questions \cup Documents -> Campuses]
    /\ moverCampus \in Campuses

Stays(t) == t \in DOMAIN tags
LinkedTo(t) == {x[1] : x \in {y \in links : y[2] = t}}
Same(t, name, kind, c) ==
    tags[t].name = name /\ tags[t].kind = kind /\ tags[t].campus = c

\* ux_tags_institution_name
UniqueNames(rows) ==
    \A t, s \in DOMAIN rows :
        <<rows[t].name, rows[t].kind, rows[t].campus>>
            = <<rows[s].name, rows[s].kind, rows[s].campus>> => t = s

Labels(item) == {tags[t].name : t \in {s \in DOMAIN tags : <<item, s>> \in links}}

-----------------------------------------------------------------------------
(***************************************************************************)
(* backend/api/tags.py                                                     *)
(***************************************************************************)

\* An existing tag is returned as it is.
CreateTag(c, name, kind, mine) ==
    \E t \in Tags \ DOMAIN tags :
        /\ \A s \in DOMAIN tags : ~Same(s, name, kind, c)
        /\ mine => moverCampus = c
        /\ tags' = [s \in DOMAIN tags \cup {t} |->
                       IF s # t THEN tags[s]
                       ELSE [name |-> name, kind |-> kind, campus |-> c,
                             mine |-> mine, archived |-> FALSE]]
        /\ UNCHANGED <<links, campus, moverCampus>>

RenameTag(t, name) ==
    /\ Stays(t)
    /\ \A s \in DOMAIN tags \ {t} : ~Same(s, name, tags[t].kind, tags[t].campus)
    /\ tags' = [tags EXCEPT ![t].name = name]
    /\ UNCHANGED <<links, campus, moverCampus>>

ArchiveTag(t, archived) ==
    /\ Stays(t)
    /\ tags' = [tags EXCEPT ![t].archived = archived]
    /\ UNCHANGED <<links, campus, moverCampus>>

\* Only questions count as use; the links of documents go with the tag.
DeletableMutant(t) == tags[t].archived /\ tags[t].kind = "content"
Deletable(t) ==
    /\ tags[t].archived /\ tags[t].kind = "content"
    /\ LinkedTo(t) \cap Questions = {}

DeleteTag(t) ==
    /\ Stays(t) /\ Deletable(t)
    /\ tags' = [s \in DOMAIN tags \ {t} |-> tags[s]]
    /\ links' = {x \in links : x[2] # t}
    /\ UNCHANGED <<campus, moverCampus>>

\* The session does not flush by itself, so a question that two sources mark
\* and the target does not is given the target twice, and the commit fails.
MergeCommits(S, target) ==
    \A q \in Questions : <<q, target>> \notin links =>
        \A s, t \in S : q \in LinkedTo(s) \cap LinkedTo(t) => s = t

\* Documents stay with the sources.
MergeTags(S, target) ==
    /\ S # {} /\ target \notin S /\ S \cup {target} \subseteq DOMAIN tags
    /\ \A s \in S \cup {target} :
          tags[s].kind = "content" /\ tags[s].campus = tags[target].campus
    /\ MergeCommits(S, target)
    /\ links' = {x \in links : x[2] \notin S \/ x[1] \notin Questions}
                \cup {<<q, target>> : q \in Questions \cap UNION {LinkedTo(s) : s \in S}}
    /\ tags' = [t \in DOMAIN tags |->
                   IF t \in S THEN [tags[t] EXCEPT !.archived = TRUE] ELSE tags[t]]
    /\ UNCHANGED <<campus, moverCampus>>

-----------------------------------------------------------------------------
(***************************************************************************)
(* Marking items                                                           *)
(***************************************************************************)

\* _assign_tags_to_question replaces all tags; any kind is taken.
TagQuestion(q, T) ==
    /\ \A t \in T : Stays(t) /\ tags[t].campus = campus[q] /\ ~tags[t].archived
    /\ links' = {x \in links : x[1] # q} \cup ({q} \X T)
    /\ UNCHANGED <<tags, campus, moverCampus>>

\* attach_tags_to_document: content only.
TagDocument(d, t) ==
    /\ Stays(t) /\ tags[t].campus = campus[d]
    /\ tags[t].kind = "content" /\ ~tags[t].archived
    /\ links' = links \cup {<<d, t>>}
    /\ UNCHANGED <<tags, campus, moverCampus>>

TagPrompt(p, t) ==
    /\ Stays(t) /\ tags[t].kind = "prompt" /\ ~tags[t].archived
    /\ links' = links \cup {<<p, t>>}
    /\ UNCHANGED <<tags, campus, moverCampus>>

Untag(item, t) ==
    /\ <<item, t>> \in links
    /\ links' = links \ {<<item, t>>}
    /\ UNCHANGED <<tags, campus, moverCampus>>

-----------------------------------------------------------------------------
(***************************************************************************)
(* transfer_user, with the tags and any of the mover's items               *)
(***************************************************************************)

Moving(from) == {t \in DOMAIN tags : tags[t].mine /\ tags[t].campus = from}

\* The tag of the target that a moving tag is merged into: the query compares
\* names only, not kinds.
Existing(t, to) ==
    {s \in DOMAIN tags : tags[s].campus = to /\ tags[s].name = tags[t].name}

\* into[t] = t moves the tag.  A tag moved before is seen once a merge in
\* between has flushed it.
Merges(from, to) ==
    {into \in [Moving(from) -> DOMAIN tags] :
        \A t \in Moving(from) :
            \/ into[t] \in Existing(t, to)
            \/ Existing(t, to) = {} /\ into[t] = t
            \/ /\ Existing(t, to) = {} /\ into[t] \in Moving(from)
               /\ into[into[t]] = into[t] /\ tags[into[t]].name = tags[t].name
               /\ \E s \in Moving(from) : Existing(s, to) # {}}

\* _repoint_tag_links moves the links of questions and documents; what else
\* refers to a merged tag is deleted with it.
Repointed(into) ==
    {<<x[1], IF x[2] \in DOMAIN into THEN into[x[2]] ELSE x[2]>> :
        x \in {y \in links : \/ y[1] \in Questions \cup Documents
                             \/ y[2] \notin DOMAIN into \/ into[y[2]] = y[2]}}

TransferMover(to, moved) ==
    /\ to # moverCampus
    /\ \A i \in moved : campus[i] = moverCampus
    /\ campus' = [i \in DOMAIN campus |-> IF i \in moved THEN to ELSE campus[i]]
    /\ moverCampus' = to
    /\ \/ UNCHANGED <<tags, links>>
       \/ \E into \in Merges(moverCampus, to) :
             LET kept == {t \in DOMAIN tags : t \in DOMAIN into => into[t] = t}
             IN  /\ tags' = [t \in kept |->
                       IF t \in DOMAIN into THEN [tags[t] EXCEPT !.campus = to]
                       ELSE tags[t]]
                 /\ UniqueNames(tags')
                 /\ links' = Repointed(into)

TagsNext ==
    \/ \E c \in Campuses, name \in TagNames, kind \in Kinds, mine \in BOOLEAN :
          CreateTag(c, name, kind, mine)
    \/ \E t \in Tags :
          \/ \E name \in TagNames : RenameTag(t, name)
          \/ \E archived \in BOOLEAN : ArchiveTag(t, archived)
          \/ DeleteTag(t)
          \/ \E S \in SUBSET Tags : MergeTags(S, t)
          \/ \E d \in Documents : TagDocument(d, t)
          \/ \E p \in Prompts : TagPrompt(p, t)
          \/ \E item \in Items : Untag(item, t)
    \/ \E q \in Questions, T \in SUBSET Tags : TagQuestion(q, T)
    \/ \E to \in Campuses, moved \in SUBSET (Questions \cup Documents) :
          TransferMover(to, moved)

TagsSpec == TagsInit /\ [][TagsNext]_tagVars

-----------------------------------------------------------------------------
(***************************************************************************)
(* Properties                                                              *)
(***************************************************************************)

\* Who moves to another institution, or tidies up unused tags, takes no label
\* from anybody's questions: the names stay, whatever tags were merged, and no
\* institution gets a name of one kind twice (delete_tag, "only archived tags
\* with usage_count == 0", and _transfer_tags_with_dedup).
LabelsKept ==
    [][/\ UniqueNames(tags) => UniqueNames(tags')
       /\ (\/ \E t \in Tags : DeleteTag(t)
           \/ \E to \in Campuses, moved \in SUBSET (Questions \cup Documents) :
                 TransferMover(to, moved))
              => \A q \in Questions : Labels(q)' = Labels(q)]_tagVars

\* Documents carry content tags only (utils/document_tags.py:43).  TLC refutes
\* it (README, section 4).
ContentOnDocuments ==
    \A x \in links : x[1] \in Documents => tags[x[2]].kind = "content"

\* A transfer takes no label from a prompt.  TLC refutes it (README, section 4).
PromptLabelsKept ==
    [][\A to \in Campuses, moved \in SUBSET (Questions \cup Documents) :
          TransferMover(to, moved) => \A p \in Prompts : Labels(p)' = Labels(p)]_tagVars

=============================================================================
