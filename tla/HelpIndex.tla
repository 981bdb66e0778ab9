------------------------------ MODULE HelpIndex -----------------------------
(***************************************************************************)
(* The search index of the help pages: backend/services/                   *)
(* docs_indexer_service.py, the scan at startup (main.py) and the answers  *)
(* an admin approved (backend/api/v1/help.py), which are served until a    *)
(* page they rest on changes.                                              *)
(*                                                                         *)
(* A server is one container: its pages and their git history are those of *)
(* its release.  A run works page by page under a lock in Redis that       *)
(* expires; servers of two releases overlap during a rollout.  Whether the *)
(* old chunks of a page could be removed is not asked before the new ones  *)
(* are stored under ids of their own.                                      *)
(***************************************************************************)
EXTENDS Integers, FiniteSets

CONSTANTS
    Servers,
    Pages,
    Wordings,
    Absent,      \* no such page
    Releases,    \* 0..n, in the order of their commits
    Unlocked,    \* nobody holds the lock
    NoRun,
    NoSha,       \* nothing was indexed yet, or git is not to be had
    MaxRuns      \* bound on the number of runs

HelpRuns == [full : BOOLEAN, every : BOOLEAN, git : BOOLEAN, todo : SUBSET Pages,
             gone : SUBSET Pages, touched : SUBSET Pages, failed : BOOLEAN,
             saved : BOOLEAN, alone : BOOLEAN]

ASSUME HelpAssumption ==
    /\ Absent \notin Wordings /\ Unlocked \notin Servers
    /\ 0 \in Releases /\ Releases \subseteq Nat /\ NoSha \notin Releases
    /\ NoRun \notin HelpRuns
    /\ MaxRuns \in Nat

VARIABLES
    docs,        \* [Releases -> [Pages -> Wordings or Absent]]
    release,     \* [Servers -> Releases]
    collection,  \* [Pages -> the wordings the search finds of them]
    kept,        \* pages whose old chunks could not be removed since they last were
    sha,         \* last_indexed_sha
    status,      \* indexing_status
    lock,
    run,         \* [Servers -> the run it does, or NoRun]
    answer,      \* [Pages -> the wordings an approved answer that is not stale rests on]
    broken,      \* what CompletedIsComplete excludes has happened since the last full scan
    runs

helpVars ==
    <<docs, release, collection, kept, sha, status, lock, run, answer, broken, runs>>

-----------------------------------------------------------------------------
Content == [Pages -> Wordings \cup {Absent}]
PagesOf(r) == {p \in Pages : docs[r][p] # Absent}

HelpInit ==
    /\ docs \in [Releases -> Content]
    /\ release = [s \in Servers |-> 0]
    /\ collection = [p \in Pages |-> {}] /\ kept = {}
    /\ sha = NoSha /\ status = "idle" /\ lock = Unlocked
    /\ run = [s \in Servers |-> NoRun]
    /\ answer = [p \in Pages |-> {}]
    /\ broken = FALSE /\ runs = 0

\* git diff --name-status <sha>..HEAD: a page whose text reappears under a new
\* path is a rename, of which only the new path is taken.
Added(v, w) == PagesOf(w) \ PagesOf(v)
ChangedPages(v, w) == {p \in PagesOf(w) : docs[w][p] # docs[v][p]}
DeletedPages(v, w) ==
    {p \in PagesOf(v) \ PagesOf(w) : \A q \in Added(v, w) : docs[w][q] # docs[v][p]}

\* A commit of a later release is not in this server's history.
Indexed(s) == sha # NoSha /\ sha <= release[s]

-----------------------------------------------------------------------------
(***************************************************************************)
(* run_index                                                               *)
(***************************************************************************)
Full(asked) == asked \/ status = "idle"
FromDiff(s, asked, git) == git /\ ~Full(asked) /\ Indexed(s)

Todo(s, diff) == IF diff THEN ChangedPages(sha, release[s]) ELSE PagesOf(release[s])
Gone(s, diff) == IF diff THEN DeletedPages(sha, release[s]) ELSE {}

\* A page a later commit changed and this one changed back.
Reverted(w) ==
    \E u \in Releases, p \in Pages :
        sha < u /\ u < w /\ docs[u][p] # docs[sha][p] /\ docs[w][p] = docs[sha][p]

Begin(s, asked, git) ==
    LET diff == FromDiff(s, asked, git)
    IN  /\ run[s] = NoRun /\ lock = Unlocked /\ runs < MaxRuns
        /\ lock' = s
        /\ status' = "in_progress"
        /\ collection' = IF Full(asked) THEN [p \in Pages |-> {}] ELSE collection
        /\ kept' = IF Full(asked) THEN {} ELSE kept
        /\ run' = [t \in Servers |->
              IF t = s
              THEN [full |-> Full(asked), every |-> ~diff, git |-> git,
                    todo |-> Todo(s, diff), gone |-> Gone(s, diff),
                    touched |-> Todo(s, diff) \cup Gone(s, diff),
                    failed |-> FALSE, saved |-> FALSE,
                    alone |-> \A u \in Servers : run[u] = NoRun]
              ELSE IF run[t] = NoRun THEN NoRun ELSE [run[t] EXCEPT !.alone = FALSE]]
        /\ runs' = runs + 1
        /\ broken' = \/ broken
                     \/ /\ status = "partial" /\ diff
                        /\ \/ \E t \in Servers : release[t] > release[s]
                           \/ Reverted(release[s])
        /\ UNCHANGED <<docs, release, sha, answer>>

Runs(s) == run[s] # NoRun
Went(s, new) == run' = [run EXCEPT ![s] = new]

\* Old chunks out, new ones in.  The result of the removal is ignored; an error
\* of the storing is a failure, whether or not the chunks were stored.
IndexPage(s, p) ==
    /\ Runs(s) /\ p \in run[s].todo
    /\ \E removed, stored, ok \in BOOLEAN :
          LET left == IF removed THEN {} ELSE collection[p]
              new == IF stored THEN {docs[release[s]][p]} ELSE {}
          IN  /\ ok => stored
              /\ collection' = [collection EXCEPT ![p] = left \cup new]
              /\ kept' = IF removed THEN kept \ {p} ELSE kept \cup {p}
              /\ Went(s, [run[s] EXCEPT !.todo = @ \ {p}, !.failed = @ \/ ~ok])
    /\ UNCHANGED <<docs, release, sha, status, lock, answer, broken, runs>>

RemovePage(s, p) ==
    /\ Runs(s) /\ run[s].todo = {} /\ p \in run[s].gone
    /\ \E removed, ok \in BOOLEAN :
          /\ ok => removed
          /\ collection' = IF removed THEN [collection EXCEPT ![p] = {}] ELSE collection
          /\ kept' = IF removed THEN kept \ {p} ELSE kept
          /\ Went(s, [run[s] EXCEPT !.gone = @ \ {p}, !.failed = @ \/ ~ok])
    /\ UNCHANGED <<docs, release, sha, status, lock, answer, broken, runs>>

\* The recorded commit moves only if every page of the run succeeded.
AdvancesMutant(s) == TRUE
Advances(s) == ~run[s].failed

SaveState(s) ==
    /\ Runs(s) /\ ~run[s].saved /\ run[s].todo = {} /\ run[s].gone = {}
    /\ sha' = IF ~Advances(s) THEN sha ELSE IF run[s].git THEN release[s] ELSE NoSha
    /\ status' = IF Advances(s) THEN "completed" ELSE "partial"
    /\ Went(s, [run[s] EXCEPT !.saved = TRUE])
    /\ UNCHANGED <<docs, release, collection, kept, lock, answer, broken, runs>>

\* _invalidate_stale_faq_cache, then the lock is deleted, whoever holds it.
Finish(s) ==
    /\ Runs(s) /\ run[s].saved
    /\ answer' = [p \in Pages |-> IF p \in run[s].touched THEN {} ELSE answer[p]]
    /\ broken' = IF run[s].every /\ run[s].failed THEN TRUE
                 ELSE IF run[s].full THEN ~run[s].alone ELSE broken
    /\ run' = [run EXCEPT ![s] = NoRun]
    /\ lock' = Unlocked
    /\ UNCHANGED <<docs, release, collection, kept, sha, status, runs>>

\* An exception ends the run; the database is rolled back to the old commit.
BreakOff(s) ==
    /\ Runs(s)
    /\ status' = "failed" /\ lock' = Unlocked
    /\ run' = [run EXCEPT ![s] = NoRun]
    /\ broken' = TRUE
    /\ UNCHANGED <<docs, release, collection, kept, sha, answer, runs>>

-----------------------------------------------------------------------------
\* Fifteen minutes are over.
LockExpires ==
    /\ lock # Unlocked
    /\ lock' = Unlocked
    /\ broken' = (broken \/ \E s \in Servers : Runs(s))
    /\ UNCHANGED <<docs, release, collection, kept, sha, status, run, answer, runs>>

\* A container dies or is replaced; the next one is of this or a later release.
Restart(s) ==
    /\ \E r \in Releases : r >= release[s] /\ release' = [release EXCEPT ![s] = r]
    /\ run' = [run EXCEPT ![s] = NoRun]
    /\ broken' = (broken \/ Runs(s))
    /\ UNCHANGED <<docs, collection, kept, sha, status, lock, answer, runs>>

ApproveFaq(p) ==
    /\ collection[p] # {}
    /\ answer' = [answer EXCEPT ![p] = collection[p]]
    /\ UNCHANGED <<docs, release, collection, kept, sha, status, lock, run, broken, runs>>

RejectFaq(p) ==
    /\ answer[p] # {}
    /\ answer' = [answer EXCEPT ![p] = {}]
    /\ UNCHANGED <<docs, release, collection, kept, sha, status, lock, run, broken, runs>>

HelpNext ==
    \/ \E s \in Servers :
          \/ \E asked, git \in BOOLEAN : Begin(s, asked, git)
          \/ \E p \in Pages : IndexPage(s, p) \/ RemovePage(s, p)
          \/ SaveState(s) \/ Finish(s) \/ BreakOff(s) \/ Restart(s)
    \/ LockExpires
    \/ \E p \in Pages : ApproveFaq(p) \/ RejectFaq(p)

HelpSpec == HelpInit /\ [][HelpNext]_helpVars

-----------------------------------------------------------------------------
Resting == \A s \in Servers : ~Runs(s)

\* The search finds a page as it reads in a release, and beside it nothing but
\* what a removal that failed has left.
ReadsAs(p, r) ==
    docs[r][p] \in collection[p] /\ (p \notin kept => collection[p] = {docs[r][p]})

\* Unless a run lost its lock, broke off or failed on one page of all, or an
\* older release, or one that changed a page back, took over from a run that
\* failed: when indexing is reported completed at a commit, the search finds
\* every page of that commit as it reads there, and beside it old text only of a
\* page whose old chunks could not be removed, whichever incremental runs failed
\* before; and an approved answer that is served rests on a page as the search
\* finds it, or on one that is gone.
CompletedIsComplete ==
    status = "completed" /\ ~broken /\ Resting =>
        /\ sha # NoSha => \A p \in PagesOf(sha) : ReadsAs(p, sha)
        /\ \A p \in Pages : answer[p] \in {{}, collection[p]} \/ collection[p] = {}

\* What is not so: that a completed index holds no old text beside the new
\* ("Callers MUST check the return", _remove_file_from_index; _index_file does
\* not); the same whatever happened before, because an incremental run starts
\* from the recorded commit although a full scan may have cleared the index
\* since; that pages which are gone are not found (a renamed page is not a
\* deleted one); and that no answer rests on a page that is gone (a full scan
\* deletes nothing page by page).  TLC refutes all four (README, section 4).
OldTextIsGone ==
    Resting /\ ~broken /\ status = "completed" /\ sha # NoSha =>
        \A p \in PagesOf(sha) : collection[p] = {docs[sha][p]}
CompletedIsAlwaysComplete ==
    Resting /\ status = "completed" /\ sha # NoSha =>
        \A p \in PagesOf(sha) : docs[sha][p] \in collection[p]
GonePagesAreGone ==
    Resting /\ ~broken /\ status = "completed" /\ sha # NoSha =>
        \A p \in Pages \ (PagesOf(sha) \cup kept) : collection[p] = {}
AnswersRestOnPages ==
    Resting /\ ~broken /\ status = "completed" =>
        \A p \in Pages : answer[p] \in {{}, collection[p]}

=============================================================================
