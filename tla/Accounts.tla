------------------------------ MODULE Accounts ------------------------------
(***************************************************************************)
(* The end of an account and the sessions in which an administrator acts   *)
(* as another user.                                                        *)
(*                                                                         *)
(* backend/api/gdpr.py takes requests for deletion, which fall due after a *)
(* grace period; a daily sweep (backend/tasks/gdpr_tasks.py) sends a task  *)
(* for every due account; backend/services/gdpr_deletion_service.py        *)
(* erases, first the rows and then the stored files.  Impersonation        *)
(* sessions (backend/api/admin.py, backend/services/auth_service.py) are   *)
(* closed by the administrator or, once their token has expired, by a      *)
(* watchdog (backend/tasks/maintenance_tasks.py), and outlive the users    *)
(* they name.                                                              *)
(*                                                                         *)
(* PostgreSQL, READ COMMITTED.  The deletion task holds the user's row     *)
(* FOR UPDATE, so an UPDATE of that row and an INSERT that refers to it    *)
(* wait; deleting at once only refers to the row until its DELETE.         *)
(***************************************************************************)
EXTENDS Integers, FiniteSets

CONSTANTS
    Users,
    Nobody,      \* NULL in a foreign key
    Files,       \* files that are uploaded (bound)
    Sessions,    \* impersonation sessions that are started (bound)
    Processes,   \* API requests at a time
    Tasks,       \* messages of execute_gdpr_deletion at a time (bound)
    Reapers,     \* overlapping executions of the session watchdog
    MaxRetries,  \* retries of a deletion task (3 in the code)
    MaxCalls,    \* bound on API requests
    MaxFaults    \* bound on failures

ASSUME ConstantsAssumption ==
    /\ Nobody \notin Users
    /\ Reapers \cap {"none", "user"} = {}
    /\ IsFiniteSet(Files)
    /\ IsFiniteSet(Sessions)
    /\ MaxRetries \in Nat
    /\ MaxCalls \in Nat
    /\ MaxFaults \in Nat

VARIABLES
    account,     \* none requested, grace period, due, row deleted
    erased,      \* action of the audit entry of the deletion
    owner,       \* who uploaded a file (history)
    rows,        \* files a row of documents refers to
    stored,      \* files in the storage
    orphan,      \* files whose removal failed or was cut off (history)
    task,        \* messages and runs of execute_gdpr_deletion
    sess,        \* the rows of impersonation_sessions
    expired,     \* sessions older than their token
    reported,    \* audit entries and mails for the end of a session (history)
    silent,      \* sessions whose report failed or was cut off (history)
    reaper,      \* executions of the watchdog
    call,        \* the API requests in progress
    calls, faults

accountVars == <<account, erased>>
fileVars == <<owner, rows, stored, orphan>>
sessionVars == <<sess, expired>>
reportVars == <<reported, silent>>
vars == <<accountVars, fileVars, task, sessionVars, reportVars, reaper, call,
          calls, faults>>

Person == Users \cup {Nobody}
Ended == {"manual", "timeout"}

Calls == [op : {"idle", "request", "cancel", "erase", "remove", "upload", "start",
                "end", "report"},
          user : Person, target : Person, files : SUBSET Files,
          sessions : SUBSET Sessions]
Request(op, u, t, F, S) == [op |-> op, user |-> u, target |-> t, files |-> F, sessions |-> S]
Idle == Request("idle", Nobody, Nobody, {}, {})

Runs == [pc : {"idle", "queued", "locked", "files"}, user : Person,
         paths : SUBSET Files, retries : 0..MaxRetries]
Work(pc, u, P, n) == [pc |-> pc, user |-> u, paths |-> P, retries |-> n]
Message(u, n) == Work("queued", u, {}, n)
NoRun == Work("idle", Nobody, {}, 0)

NoSweep == [pc |-> "idle", todo |-> {}]

Rows == [state : {"none", "active"} \cup Ended, admin : Person, target : Person,
         by : {"none", "user"} \cup Reapers]
Session(state, a, t, by) == [state |-> state, admin |-> a, target |-> t, by |-> by]
NoSession == Session("none", Nobody, Nobody, "none")

Exists(u) == u \in Users /\ account[u] # "deleted"

Active(a) == {s \in Sessions : sess[s].state = "active" /\ sess[s].admin = a}

\* The checks and the partial unique index of impersonation_sessions are part
\* of the type.
TypeOK ==
    /\ account \in [Users -> {"active", "pending", "due", "deleted"}]
    /\ erased \in [Users -> {"no", "scheduled", "immediately"}]
    /\ \A u \in Users : (account[u] = "deleted") <=> erased[u] # "no"
    /\ owner \in [Files -> Person]
    /\ rows \in SUBSET Files /\ \A f \in rows : owner[f] # Nobody
    /\ stored \in SUBSET Files
    /\ orphan \in SUBSET Files
    /\ task \in [Tasks -> Runs]
    /\ sess \in [Sessions -> Rows]
    /\ \A s \in Sessions : (sess[s].state \in Ended) <=> sess[s].by # "none"
    /\ \A s \in Sessions : sess[s].admin # Nobody => sess[s].admin # sess[s].target
    /\ \A s \in Sessions : \A u \in {sess[s].admin, sess[s].target} \ {Nobody} : Exists(u)
    /\ \A s, x \in Sessions :
          /\ sess[s].state = "active" /\ sess[x].state = "active"
          /\ sess[s].admin = sess[x].admin /\ sess[s].admin # Nobody
          => s = x
    /\ expired \in SUBSET Sessions
    /\ reported \in [Sessions -> Nat]
    /\ silent \in SUBSET Sessions
    /\ reaper \in [Reapers -> [pc : {"idle", "read", "report"}, todo : SUBSET Sessions]]
    /\ call \in [Processes -> Calls]
    /\ calls \in 0..MaxCalls
    /\ faults \in 0..MaxFaults

Init ==
    /\ account = [u \in Users |-> "active"]
    /\ erased = [u \in Users |-> "no"]
    /\ owner = [f \in Files |-> Nobody]
    /\ rows = {} /\ stored = {} /\ orphan = {}
    /\ task = [d \in Tasks |-> NoRun]
    /\ sess = [s \in Sessions |-> NoSession]
    /\ expired = {}
    /\ reported = [s \in Sessions |-> 0]
    /\ silent = {}
    /\ reaper = [k \in Reapers |-> NoSweep]
    /\ call = [p \in Processes |-> Idle]
    /\ calls = 0 /\ faults = 0

-----------------------------------------------------------------------------
Fault == faults < MaxFaults /\ faults' = faults + 1

\* SELECT ... FOR UPDATE by the deletion task, until its transaction ends.
LockedMutant(u) == FALSE
Locked(u) == \E d \in Tasks : task[d].pc = "locked" /\ task[d].user = u

\* A deletion at once refers to the row with its uncommitted audit entry.
Erasing(u) == {p \in Processes : call[p].op = "erase" /\ call[p].user = u}

Begin(p, u, c) ==
    /\ call[p].op = "idle" /\ calls < MaxCalls
    /\ Exists(u)
    /\ call' = [call EXCEPT ![p] = c]
    /\ calls' = calls + 1

Return(p) == call' = [call EXCEPT ![p] = Idle] /\ UNCHANGED calls

\* DELETE FROM users: documents cascade, sessions keep a NULL.
Forgets(u) ==
    LET Kept(v) == IF v = u THEN Nobody ELSE v
    IN  [s \in Sessions |-> Session(sess[s].state, Kept(sess[s].admin),
                                    Kept(sess[s].target), sess[s].by)]

Erase(u, how) ==
    /\ account' = [account EXCEPT ![u] = "deleted"]
    /\ erased' = [erased EXCEPT ![u] = how]
    /\ rows' = {f \in rows : owner[f] # u}
    /\ sess' = Forgets(u)

PathsOf(u) == {f \in rows : owner[f] = u}

-----------------------------------------------------------------------------
(***************************************************************************)
(* Requests about the own account.  The user is loaded before the handler, *)
(* the UPDATE is its commit.                                               *)
(***************************************************************************)

\* request_account_deletion: 400 when one is pending.
RequestDeletion(p, u) ==
    /\ Begin(p, u, Request("request", u, Nobody, {}, {}))
    /\ account[u] = "active"
    /\ UNCHANGED <<accountVars, fileVars, task, sessionVars, reportVars, reaper, faults>>

\* cancel_account_deletion: 400 when none is pending.
CancelDeletion(p, u) ==
    /\ Begin(p, u, Request("cancel", u, Nobody, {}, {}))
    /\ account[u] \in {"pending", "due"}
    /\ UNCHANGED <<accountVars, fileVars, task, sessionVars, reportVars, reaper, faults>>

\* Both: no row is matched when the account is gone, answer 500.
StoreRequest(p) ==
    LET u == call[p].user
    IN  /\ call[p].op \in {"request", "cancel"}
        /\ ~Locked(u)
        /\ account' = IF account[u] = "deleted" THEN account
                      ELSE [account EXCEPT ![u] =
                              IF call[p].op = "request" THEN "pending" ELSE "active"]
        /\ Return(p)
        /\ UNCHANGED <<erased, fileVars, task, sessionVars, reportVars, reaper, faults>>

\* scheduled_deletion_date passes; no request lasts as long as that.
GracePeriodEnds(u) ==
    /\ account[u] = "pending"
    /\ \A p \in Processes : ~(call[p].op = "request" /\ call[p].user = u)
    /\ account' = [account EXCEPT ![u] = "due"]
    /\ UNCHANGED <<erased, fileVars, task, sessionVars, reportVars, reaper, call, calls,
                   faults>>

\* delete_account_immediately up to the DELETE: audit entry, paths of the files.
EraseNow(p, u) ==
    /\ ~Locked(u)
    /\ Begin(p, u, Request("erase", u, Nobody, PathsOf(u), {}))
    /\ UNCHANGED <<accountVars, fileVars, task, sessionVars, reportVars, reaper, faults>>

\* The DELETE waits for the others that refer to the row.
EraseNowCommits(p) ==
    LET u == call[p].user
    IN  /\ call[p].op = "erase"
        /\ Erasing(u) = {p}
        /\ Erase(u, "immediately")
        /\ call' = [call EXCEPT ![p] = Request("remove", u, Nobody, call[p].files, {})]
        /\ UNCHANGED <<owner, stored, orphan, task, expired, reportVars, reaper, calls, faults>>

\* Two of them wait for each other and PostgreSQL aborts one, or the commit fails.
EraseNowFails(p) ==
    /\ call[p].op = "erase"
    /\ \/ Erasing(call[p].user) # {p} /\ UNCHANGED faults
       \/ Fault
    /\ Return(p)
    /\ UNCHANGED <<accountVars, fileVars, task, sessionVars, reportVars, reaper>>

\* _delete_document_files, best effort: a removal that fails is only logged.
Remove(paths) ==
    \E failed \in SUBSET paths :
        /\ \/ failed = {} /\ UNCHANGED faults
           \/ failed # {} /\ Fault
        /\ stored' = stored \ (paths \ failed)
        /\ orphan' = orphan \cup failed
        /\ UNCHANGED <<owner, rows>>

RemoveFiles(p) ==
    /\ call[p].op = "remove"
    /\ Remove(call[p].files)
    /\ Return(p)
    /\ UNCHANGED <<accountVars, task, sessionVars, reportVars, reaper>>

\* upload_document, first the file ...
StoreFile(p, u, f) ==
    /\ Begin(p, u, Request("upload", u, Nobody, {f}, {}))
    /\ owner[f] = Nobody
    /\ owner' = [owner EXCEPT ![f] = u]
    /\ stored' = stored \cup {f}
    /\ UNCHANGED <<accountVars, rows, orphan, task, sessionVars, reportVars, reaper, faults>>

\* ... then the row.  Without its user the INSERT fails and the file is removed.
InsertRow(p) ==
    LET u == call[p].user
    IN  /\ call[p].op = "upload"
        /\ ~Locked(u)
        /\ \/ /\ Exists(u)
              /\ rows' = rows \cup call[p].files
              /\ UNCHANGED <<owner, stored, orphan, faults>>
           \/ ~Exists(u) /\ Remove(call[p].files)
        /\ Return(p)
        /\ UNCHANGED <<accountVars, task, sessionVars, reportVars, reaper>>

-----------------------------------------------------------------------------
(***************************************************************************)
(* The daily sweep and its tasks                                           *)
(***************************************************************************)
Run(d, r) == task' = [task EXCEPT ![d] = r]

\* process_scheduled_deletions, for one of the due accounts.
Sweep(d, u) ==
    /\ account[u] = "due"
    /\ task[d].pc = "idle"
    /\ Run(d, Message(u, 0))
    /\ UNCHANGED <<accountVars, fileVars, sessionVars, reportVars, reaper, call, calls,
                   faults>>

\* execute_gdpr_deletion: lock the row and look again.  Gone, cancelled or not
\* due: skip.
StillDueMutant(u) == account[u] # "deleted"
SwappedMutant(u) == account[u] = "pending"
StillDue(u) == account[u] = "due"

\* The INSERT of a document waits for the lock: the paths stay complete.
LoadUser(d) ==
    LET u == task[d].user
    IN  /\ task[d].pc = "queued"
        /\ ~Locked(u) /\ Erasing(u) = {}
        /\ Run(d, IF StillDue(u) THEN Work("locked", u, PathsOf(u), task[d].retries)
                  ELSE NoRun)
        /\ UNCHANGED <<accountVars, fileVars, sessionVars, reportVars, reaper, call, calls,
                       faults>>

EraseScheduled(d) ==
    /\ task[d].pc = "locked"
    /\ Erase(task[d].user, "scheduled")
    /\ Run(d, Work("files", task[d].user, task[d].paths, task[d].retries))
    /\ UNCHANGED <<owner, stored, orphan, expired, reportVars, reaper, call, calls, faults>>

\* Rollback.  A transient error is retried; any other, or the last, ends the
\* task: the next sweep sends a new one.
Again(r) == IF r.retries < MaxRetries
            THEN Message(r.user, r.retries + 1)
            ELSE NoRun
TaskFails(d) ==
    /\ task[d].pc \in {"queued", "locked"}
    /\ Fault
    /\ \E r \in {Again(task[d]), NoRun} : Run(d, r)
    /\ UNCHANGED <<accountVars, fileVars, sessionVars, reportVars, reaper, call, calls>>

RemoveScheduled(d) ==
    /\ task[d].pc = "files"
    /\ Remove(task[d].paths)
    /\ Run(d, NoRun)
    /\ UNCHANGED <<accountVars, sessionVars, reportVars, reaper, call, calls>>

\* The worker dies: the message is acknowledged, or delivered again.
WorkerLost(d) ==
    /\ task[d].pc # "idle"
    /\ Fault
    /\ \E r \in {NoRun, Message(task[d].user, 0)} : Run(d, r)
    /\ orphan' = IF task[d].pc = "files" THEN orphan \cup task[d].paths ELSE orphan
    /\ UNCHANGED <<accountVars, owner, rows, stored, sessionVars, reportVars, reaper, call,
                   calls>>

-----------------------------------------------------------------------------
(***************************************************************************)
(* Impersonation                                                           *)
(***************************************************************************)

\* start_impersonation up to the check for an own active session (409).
StartImpersonation(p, a, t) ==
    /\ Begin(p, a, Request("start", a, t, {}, {}))
    /\ a # t /\ Exists(t)
    /\ Active(a) = {}
    /\ UNCHANGED <<accountVars, fileVars, task, sessionVars, reportVars, reaper, faults>>

\* The flush: the unique index and the foreign keys (409).
MayInsert(a, t) == Exists(a) /\ Exists(t) /\ Active(a) = {}

\* The row and its token are committed together or not at all.
CommitSession(p) ==
    LET a == call[p].user
        t == call[p].target
    IN  /\ call[p].op = "start"
        /\ ~Locked(a) /\ ~Locked(t)
        /\ \/ /\ MayInsert(a, t)
              /\ \E s \in Sessions :
                    /\ sess[s].state = "none"
                    /\ sess' = [sess EXCEPT ![s] = Session("active", a, t, "none")]
              /\ UNCHANGED faults
           \/ ~MayInsert(a, t) /\ UNCHANGED <<sess, faults>>
           \/ Fault /\ UNCHANGED sess
        /\ Return(p)
        /\ UNCHANGED <<accountVars, fileVars, task, expired, reportVars, reaper>>

\* With the impersonation token the session is the token's (also from logout),
\* with the administrator's own token the active one.
EndImpersonation(p, s) ==
    /\ \/ Begin(p, sess[s].target, Request("end", Nobody, Nobody, {}, {s}))
       \/ /\ Begin(p, sess[s].admin, Request("end", Nobody, Nobody, {}, {s}))
          /\ sess[s].state = "active"
    /\ UNCHANGED <<accountVars, fileVars, task, sessionVars, reportVars, reaper, faults>>

\* UPDATE ... SET ended_at, end_reason WHERE id IN (...) AND ended_at IS NULL
Closable(S) == {s \in S : sess[s].state = "active"}

Close(S, how, by) ==
    sess' = [s \in Sessions |-> IF s \in S
                                THEN Session(how, sess[s].admin, sess[s].target, by)
                                ELSE sess[s]]

\* Only who closed the session reports it.
CloseSession(p) ==
    LET closed == Closable(call[p].sessions)
    IN  /\ call[p].op = "end"
        /\ Close(closed, "manual", "user")
        /\ IF closed = {} THEN Return(p)
           ELSE /\ call' = [call EXCEPT ![p] = Request("report", Nobody, Nobody, {}, closed)]
                /\ UNCHANGED calls
        /\ UNCHANGED <<accountVars, fileVars, task, expired, reportVars, reaper, faults>>

\* record_impersonation_ended, best effort.
Report(s) ==
    \/ /\ reported' = [reported EXCEPT ![s] = @ + 1]
       /\ UNCHANGED <<silent, faults>>
    \/ /\ Fault
       /\ silent' = silent \cup {s}
       /\ UNCHANGED reported

ReportEnd(p) ==
    /\ call[p].op = "report"
    /\ \A s \in call[p].sessions : Report(s)
    /\ Return(p)
    /\ UNCHANGED <<accountVars, fileVars, task, sessionVars, reaper>>

TokenExpires(s) ==
    /\ sess[s].state = "active" /\ s \notin expired
    /\ expired' = expired \cup {s}
    /\ UNCHANGED <<accountVars, fileVars, task, sess, reportVars, reaper, call, calls, faults>>

\* reap_stuck_impersonation_sessions: the candidates, ...
Reapable(s) == s \in expired /\ sess[s].state = "active"

ReadCandidates(k) ==
    LET stuck == {s \in Sessions : Reapable(s)}
    IN  /\ reaper[k].pc = "idle"
        /\ stuck # {}
        /\ reaper' = [reaper EXCEPT ![k] = [pc |-> "read", todo |-> stuck]]
        /\ UNCHANGED <<accountVars, fileVars, task, sessionVars, reportVars, call, calls, faults>>

\* ... the UPDATE, which hits no other rows since the cutoff is fixed, and the
\* rows that carry this execution's own ended_at.
WonMutant(k, rowsNow) == {s \in reaper[k].todo : rowsNow[s].state = "timeout"}
Won(k, rowsNow) ==
    {s \in reaper[k].todo : rowsNow[s].state = "timeout" /\ rowsNow[s].by = k}

Reap(k) ==
    LET closed == Closable(reaper[k].todo)
    IN  /\ reaper[k].pc = "read"
        /\ Close(closed, "timeout", k)
        /\ reaper' = [reaper EXCEPT ![k] =
                        IF closed = {} THEN NoSweep
                        ELSE [pc |-> "report", todo |-> Won(k, sess')]]
        /\ UNCHANGED <<accountVars, fileVars, task, expired, reportVars, call, calls, faults>>

ReapReports(k) ==
    /\ reaper[k].pc = "report"
    /\ \E s \in reaper[k].todo :
          /\ Report(s)
          /\ reaper' = [reaper EXCEPT ![k] =
                          IF reaper[k].todo = {s} THEN NoSweep
                          ELSE [pc |-> "report", todo |-> reaper[k].todo \ {s}]]
    /\ UNCHANGED <<accountVars, fileVars, task, sessionVars, call, calls>>

\* The worker dies, or the transaction fails before its commit.
ReaperLost(k) ==
    /\ reaper[k].pc # "idle"
    /\ Fault
    /\ silent' = IF reaper[k].pc = "report" THEN silent \cup reaper[k].todo ELSE silent
    /\ reaper' = [reaper EXCEPT ![k] = NoSweep]
    /\ UNCHANGED <<accountVars, fileVars, task, sessionVars, reported, call, calls>>

\* An API process dies with the request.
ProcessKilled(p) ==
    /\ call[p].op # "idle"
    /\ Fault
    /\ orphan' = IF call[p].op \in {"remove", "upload"} THEN orphan \cup call[p].files
                 ELSE orphan
    /\ silent' = IF call[p].op = "report" THEN silent \cup call[p].sessions ELSE silent
    /\ Return(p)
    /\ UNCHANGED <<accountVars, owner, rows, stored, task, sessionVars, reported, reaper>>

-----------------------------------------------------------------------------
AccountStep ==
    \/ \E p \in Processes, u \in Users :
          RequestDeletion(p, u) \/ CancelDeletion(p, u) \/ EraseNow(p, u)
    \/ \E p \in Processes, u \in Users, f \in Files : StoreFile(p, u, f)
    \/ \E u \in Users : GracePeriodEnds(u)
    \/ \E d \in Tasks, u \in Users : Sweep(d, u)

SessionStep ==
    \/ \E p \in Processes, a, t \in Users : StartImpersonation(p, a, t)
    \/ \E p \in Processes, s \in Sessions : EndImpersonation(p, s)
    \/ \E s \in Sessions : TokenExpires(s)

\* Steps of a request, a task or a watchdog under way.
CallStep(p) ==
    \/ StoreRequest(p) \/ EraseNowCommits(p) \/ RemoveFiles(p) \/ InsertRow(p)
    \/ CommitSession(p) \/ CloseSession(p) \/ ReportEnd(p)
TaskStep(d) == LoadUser(d) \/ EraseScheduled(d) \/ RemoveScheduled(d)
ReaperStep(k) == ReadCandidates(k) \/ Reap(k) \/ ReapReports(k)

Trouble ==
    \/ \E p \in Processes : EraseNowFails(p) \/ ProcessKilled(p)
    \/ \E d \in Tasks : TaskFails(d) \/ WorkerLost(d)
    \/ \E k \in Reapers : ReaperLost(k)

Next ==
    \/ AccountStep
    \/ SessionStep
    \/ \E p \in Processes : CallStep(p)
    \/ \E d \in Tasks : TaskStep(d)
    \/ \E k \in Reapers : ReaperStep(k)
    \/ Trouble

Spec == Init /\ [][Next]_vars

\* Requests return, messages are consumed, the sweep runs daily and the watchdog
\* every five minutes, tokens expire; nobody has to ask for anything.  One of
\* these steps happens as long as one can: less than the code's schedule gives.
Progress ==
    \/ \E p \in Processes : CallStep(p) \/ EraseNowFails(p)
    \/ \E d \in Tasks : TaskStep(d)
    \/ \E d \in Tasks, u \in Users : Sweep(d, u)
    \/ \E k \in Reapers : ReaperStep(k)
    \/ \E s \in Sessions : TokenExpires(s)

FairSpec == Spec /\ WF_vars(Progress)

-----------------------------------------------------------------------------
(***************************************************************************)
(* Properties                                                              *)
(***************************************************************************)

\* The schedule never erases an account whose request is not pending and due at
\* that moment, whatever was cancelled between the sweep and the task.
CancelHonoured ==
    [][\A u \in Users : erased[u] = "no" /\ erased'[u] = "scheduled" => account[u] = "due"]_vars

\* Once an account was erased on schedule, no file it uploaded is left, unless
\* its removal failed.  (Deleting at once does not promise it: it holds no lock.)
FilesGone ==
    \A f \in stored \ orphan :
        \/ owner[f] = Nobody \/ erased[owner[f]] # "scheduled"
        \/ \E d \in Tasks : task[d].pc = "files" /\ f \in task[d].paths
        \/ \E p \in Processes : call[p].op = "upload" /\ f \in call[p].files

\* An end is recorded and mailed at most once, and only of a session that ended,
\* however requests, a logout and two overlapping watchdogs meet: who closes the
\* session first decides its end_reason and is the only one to report.
EndReportedOnce ==
    \A s \in Sessions : reported[s] <= (IF sess[s].state \in Ended THEN 1 ELSE 0)

\* A due account is erased or its request cancelled (execute_scheduled_deletions),
\* and a session ends and its end is reported, unless that report failed
\* (reap_stuck_impersonations).
AccountsSettle ==
    /\ \A u \in Users : account[u] = "due" ~> account[u] # "due"
    /\ \A s \in Sessions :
          sess[s].state = "active" ~> reported[s] = 1 \/ s \in silent

=============================================================================
