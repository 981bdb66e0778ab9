--------------------------- MODULE AccountsProofs ---------------------------
(***************************************************************************)
(* What Accounts keeps for any users, files, sessions, requests, tasks and *)
(* watchdogs.                                                              *)
(***************************************************************************)
EXTENDS Accounts, TLAPS

AccountTypes ==
    /\ account \in [Users -> {"active", "pending", "due", "deleted"}]
    /\ erased \in [Users -> {"no", "scheduled", "immediately"}]
    /\ \A u \in Users : (account[u] = "deleted") <=> erased[u] # "no"

FileTypes ==
    /\ owner \in [Files -> Person]
    /\ rows \in SUBSET Files
    /\ stored \in SUBSET Files
    /\ orphan \in SUBSET Files

SessionTypes ==
    /\ sess \in [Sessions -> Rows]
    /\ \A s \in Sessions : (sess[s].state \in Ended) <=> sess[s].by # "none"
    /\ expired \in SUBSET Sessions
    /\ reported \in [Sessions -> Nat]
    /\ silent \in SUBSET Sessions

CallTypes ==
    /\ call \in [Processes -> Calls]
    /\ \A p \in Processes : call[p].op \in {"end", "report"} =>
          \E s \in Sessions : call[p].sessions = {s}

ActorTypes ==
    /\ task \in [Tasks -> Runs]
    /\ \A d \in Tasks : task[d].pc # "idle" => task[d].user \in Users
    /\ reaper \in [Reapers -> [pc : {"idle", "read", "report"}, todo : SUBSET Sessions]]
    /\ CallTypes

Typed == AccountTypes /\ FileTypes /\ SessionTypes /\ ActorTypes

-----------------------------------------------------------------------------
(***************************************************************************)
(* The shared steps                                                        *)
(***************************************************************************)

\* A call has the shape of a request.
LEMMA RequestTyped ==
    ASSUME NEW op \in {"idle", "request", "cancel", "erase", "remove", "upload", "start",
                       "end", "report"},
           NEW u \in Person, NEW t \in Person, NEW F \in SUBSET Files,
           NEW S \in SUBSET Sessions
    PROVE  Request(op, u, t, F, S) \in Calls
BY DEF Request, Calls

\* A task in progress has the shape of a run.
LEMMA RunsTyped ==
    /\ NoRun \in Runs
    /\ \A u \in Users, n \in 0..MaxRetries : Message(u, n) \in Runs
    /\ Idle \in Calls
BY ConstantsAssumption DEF NoRun, Runs, Message, Work, Person, Idle, Request, Calls

\* The types hold at the start.
LEMMA InitTyped == Init => Typed
<1> SUFFICES ASSUME Init PROVE Typed
  OBVIOUS
<1>1. AccountTypes /\ FileTypes
  BY DEF Init, AccountTypes, FileTypes, Person
<1>2. SessionTypes
  BY DEF Init, SessionTypes, NoSession, Session, Rows, Person, Ended
<1>3. /\ task \in [Tasks -> Runs]
      /\ \A d \in Tasks : task[d].pc = "idle"
  BY RunsTyped DEF Init, NoRun, Work
<1>4. /\ call \in [Processes -> Calls]
      /\ \A p \in Processes : call[p].op = "idle"
  BY RunsTyped DEF Init, Idle, Request
<1>5. reaper \in [Reapers -> [pc : {"idle", "read", "report"}, todo : SUBSET Sessions]]
  BY DEF Init, NoSweep
<1> QED BY <1>1, <1>2, <1>3, <1>4, <1>5 DEF Typed, ActorTypes, CallTypes

\* The requests when one begins, returns or goes on.
LEMMA CallTyped ==
    ASSUME Typed, NEW p \in Processes, NEW c \in Calls,
           c.op \in {"end", "report"} => \E s \in Sessions : c.sessions = {s},
           call' = [call EXCEPT ![p] = c]
    PROVE  CallTypes'
BY DEF Typed, ActorTypes, CallTypes

\* Ending a call keeps the types.
LEMMA ReturnTyped ==
    ASSUME Typed, NEW p \in Processes, Return(p)
    PROVE  CallTypes'
<1>1. Idle \in Calls /\ Idle.op = "idle"
  BY RunsTyped DEF Idle, Request
<1> QED BY <1>1, CallTyped DEF Return

\* A task that takes a step.
LEMMA RunTyped ==
    ASSUME Typed, NEW d \in Tasks, NEW r \in Runs, r.pc # "idle" => r.user \in Users, Run(d, r)
    PROVE  /\ task' \in [Tasks -> Runs]
           /\ \A e \in Tasks : task'[e].pc # "idle" => task'[e].user \in Users
BY DEF Run, Typed, ActorTypes

\* Erasing an account keeps the types of rows and sessions.
LEMMA EraseTyped ==
    ASSUME Typed, NEW u \in Person, NEW how \in {"scheduled", "immediately"}, Erase(u, how),
           UNCHANGED <<owner, stored, orphan, expired, reported, silent>>
    PROVE  AccountTypes' /\ FileTypes' /\ SessionTypes'
<1>1. AccountTypes'
  BY DEF Typed, AccountTypes, Erase
<1>2. FileTypes'
  BY DEF Typed, FileTypes, Erase
<1>3. SessionTypes'
  <2>1. \A s \in Sessions : /\ sess[s] \in Rows
                            /\ sess'[s].state = sess[s].state
                            /\ sess'[s].by = sess[s].by
                            /\ sess'[s] \in Rows
    BY DEF Typed, SessionTypes, Erase, Forgets, Session, Rows, Person
  <2>2. sess' \in [Sessions -> Rows]
    BY <2>1 DEF Erase, Forgets
  <2> QED BY <2>1, <2>2 DEF Typed, SessionTypes
<1> QED BY <1>1, <1>2, <1>3

\* Erasing rows and files keeps the types.
LEMMA RemoveTyped ==
    ASSUME Typed, NEW P \in SUBSET Files, Remove(P)
    PROVE  FileTypes'
BY DEF Typed, FileTypes, Remove

\* Reporting the end of a session keeps the types.
LEMMA ReportTyped ==
    ASSUME Typed, NEW s \in Sessions, Report(s)
    PROVE  reported' \in [Sessions -> Nat] /\ silent' \in SUBSET Sessions
BY DEF Typed, SessionTypes, Report

-----------------------------------------------------------------------------
(***************************************************************************)
(* Every step keeps the types                                              *)
(***************************************************************************)

\* The requests that only write an account keep the types.
LEMMA RequestsTyped ==
    ASSUME Typed, NEW p \in Processes,
           \/ \E u \in Users : RequestDeletion(p, u) \/ CancelDeletion(p, u) \/ EraseNow(p, u)
           \/ \E u \in Users, f \in Files : StoreFile(p, u, f)
           \/ \E u, t \in Users : StartImpersonation(p, u, t)
           \/ \E s \in Sessions : EndImpersonation(p, s)
    PROVE  Typed'
<1>1. ASSUME NEW u \in Users, RequestDeletion(p, u)
     PROVE  Typed'
  <2>1. CallTypes'
    BY <1>1, CallTyped, RequestTyped DEF RequestDeletion, Begin, Request, Person
  <2> QED BY <1>1, <2>1 DEF RequestDeletion, Typed, AccountTypes, FileTypes, SessionTypes,
                          ActorTypes, accountVars, fileVars, sessionVars, reportVars
<1>2. ASSUME NEW u \in Users, CancelDeletion(p, u)
     PROVE  Typed'
  <2>1. CallTypes'
    BY <1>2, CallTyped, RequestTyped DEF CancelDeletion, Begin, Request, Person
  <2> QED BY <1>2, <2>1 DEF CancelDeletion, Typed, AccountTypes, FileTypes, SessionTypes,
                          ActorTypes, accountVars, fileVars, sessionVars, reportVars
<1>3. ASSUME NEW u \in Users, EraseNow(p, u)
     PROVE  Typed'
  <2>1. PathsOf(u) \in SUBSET Files
    BY DEF PathsOf, Typed, FileTypes
  <2>2. CallTypes'
    BY <1>3, <2>1, CallTyped, RequestTyped DEF EraseNow, Begin, Request, Person
  <2> QED BY <1>3, <2>2 DEF EraseNow, Typed, AccountTypes, FileTypes, SessionTypes,
                          ActorTypes, accountVars, fileVars, sessionVars, reportVars
<1>4. ASSUME NEW u \in Users, NEW f \in Files, StoreFile(p, u, f)
     PROVE  Typed'
  <2>1. CallTypes'
    BY <1>4, CallTyped, RequestTyped DEF StoreFile, Begin, Request, Person
  <2>2. FileTypes'
    BY <1>4, ConstantsAssumption DEF StoreFile, Typed, FileTypes, Person
  <2> QED BY <1>4, <2>1, <2>2 DEF StoreFile, Typed, AccountTypes, SessionTypes,
                          ActorTypes, accountVars, sessionVars, reportVars
<1>5. ASSUME NEW u \in Users, NEW t \in Users, StartImpersonation(p, u, t)
     PROVE  Typed'
  <2>1. CallTypes'
    BY <1>5, CallTyped, RequestTyped DEF StartImpersonation, Begin, Request, Person
  <2> QED BY <1>5, <2>1 DEF StartImpersonation, Typed, AccountTypes, FileTypes, SessionTypes,
                          ActorTypes, accountVars, fileVars, sessionVars, reportVars
<1>6. ASSUME NEW s \in Sessions, EndImpersonation(p, s)
     PROVE  Typed'
  <2>1. Request("end", Nobody, Nobody, {}, {s}) \in Calls
    BY RequestTyped DEF Person
  <2>2. CallTypes'
    BY <1>6, <2>1, CallTyped DEF EndImpersonation, Begin, Request
  <2> QED BY <1>6, <2>2 DEF EndImpersonation, Typed, AccountTypes, FileTypes, SessionTypes,
                          ActorTypes, accountVars, fileVars, sessionVars, reportVars
<1> QED BY <1>1, <1>2, <1>3, <1>4, <1>5, <1>6

\* Every step of a call keeps the types.
LEMMA CallStepTyped ==
    ASSUME Typed, NEW p \in Processes, CallStep(p) \/ EraseNowFails(p) \/ ProcessKilled(p)
    PROVE  Typed'
<1>1. call[p] \in Calls
  BY DEF Typed, ActorTypes, CallTypes
<1>2. CASE StoreRequest(p)
  <2>1. CallTypes'
    BY <1>2, ReturnTyped DEF StoreRequest
  <2>2. AccountTypes'
    BY <1>2 DEF StoreRequest, Typed, AccountTypes
  <2> QED BY <1>2, <2>1, <2>2 DEF StoreRequest, Typed, FileTypes, SessionTypes,
                          ActorTypes, fileVars, sessionVars, reportVars
<1>3. CASE EraseNowCommits(p)
  <2>1. call[p].user \in Person /\ call[p].files \in SUBSET Files
    BY <1>1 DEF Calls
  <2>2. AccountTypes' /\ FileTypes' /\ SessionTypes'
    BY <1>3, <2>1, EraseTyped DEF EraseNowCommits, reportVars
  <2>3. CallTypes'
    BY <1>3, <2>1, CallTyped, RequestTyped DEF EraseNowCommits, Request, Person
  <2> QED BY <1>3, <2>2, <2>3 DEF EraseNowCommits, Typed, ActorTypes
<1>4. CASE RemoveFiles(p)
  <2>1. FileTypes'
    BY <1>1, <1>4, RemoveTyped DEF RemoveFiles, Calls
  <2>2. CallTypes'
    BY <1>4, ReturnTyped DEF RemoveFiles
  <2> QED BY <1>4, <2>1, <2>2 DEF RemoveFiles, Typed, AccountTypes, SessionTypes,
                          ActorTypes, accountVars, sessionVars, reportVars
<1>5. CASE InsertRow(p)
  <2>1. CallTypes'
    BY <1>5, ReturnTyped DEF InsertRow
  <2>2. call[p].files \in SUBSET Files
    BY <1>1 DEF Calls
  <2>3. FileTypes'
    <3>1. CASE Exists(call[p].user)
      BY <1>5, <2>2, <3>1 DEF InsertRow, Typed, FileTypes
    <3>2. CASE ~Exists(call[p].user)
      BY <1>5, <2>2, <3>2, RemoveTyped DEF InsertRow
    <3> QED BY <3>1, <3>2
  <2> QED BY <1>5, <2>1, <2>3 DEF InsertRow, Typed, AccountTypes, SessionTypes,
                          ActorTypes, accountVars, sessionVars, reportVars
<1>6. CASE CommitSession(p)
  <2>1. CallTypes'
    BY <1>6, ReturnTyped DEF CommitSession
  <2>2. Session("active", call[p].user, call[p].target, "none") \in Rows
    BY <1>1 DEF Session, Rows, Calls
  <2>3. SessionTypes'
    <3>1. CASE UNCHANGED sess
      BY <1>6, <3>1 DEF CommitSession, Typed, SessionTypes, reportVars
    <3>2. CASE \E s \in Sessions :
                  sess' = [sess EXCEPT ![s] = Session("active", call[p].user,
                                                      call[p].target, "none")]
      BY <1>6, <2>2, <3>2 DEF CommitSession, Typed, SessionTypes, reportVars, Session, Ended
    <3> QED BY <1>6, <3>1, <3>2 DEF CommitSession
  <2> QED BY <1>6, <2>1, <2>3 DEF CommitSession, Typed, AccountTypes, FileTypes,
                          ActorTypes, accountVars, fileVars
<1>7. CASE CloseSession(p)
  <2> DEFINE closed == Closable(call[p].sessions)
  <2>1. CallTypes'
    <3>1. CASE closed = {}
      BY <1>7, <3>1, ReturnTyped DEF CloseSession
    <3>2. CASE closed # {}
      <4>1. PICK s \in Sessions : call[p].sessions = {s}
        BY <1>7 DEF CloseSession, Typed, ActorTypes, CallTypes
      <4>2. closed = {s}
        BY <3>2, <4>1 DEF Closable
      <4>3. /\ Request("report", Nobody, Nobody, {}, {s}) \in Calls
            /\ Request("report", Nobody, Nobody, {}, {s}).sessions = {s}
        BY RequestTyped DEF Person, Request
      <4>4. call' = [call EXCEPT ![p] = Request("report", Nobody, Nobody, {}, {s})]
        BY <1>7, <3>2, <4>2 DEF CloseSession
      <4> QED BY <4>3, <4>4, CallTyped
    <3> QED BY <3>1, <3>2
  <2>2. closed \in SUBSET Sessions
    BY <1>1 DEF Closable, Calls
  <2>3. SessionTypes'
    <3> HIDE DEF closed
    <3>1. Close(closed, "manual", "user")
      BY <1>7 DEF CloseSession, closed
    <3>2. \A s \in Sessions : sess[s] \in Rows /\ sess'[s] \in Rows
      BY <3>1 DEF Close, Typed, SessionTypes, Session, Rows, Ended
    <3>3. \A s \in Sessions : (sess'[s].state \in Ended) <=> sess'[s].by # "none"
      BY <3>1 DEF Close, Typed, SessionTypes, Session, Ended
    <3>4. sess' \in [Sessions -> Rows]
      BY <3>1, <3>2 DEF Close
    <3> QED BY <1>7, <3>3, <3>4 DEF CloseSession, Typed, SessionTypes, reportVars
  <2> QED BY <1>7, <2>1, <2>3 DEF CloseSession, Typed, AccountTypes, FileTypes,
                          ActorTypes, accountVars, fileVars
<1>8. CASE ReportEnd(p)
  <2>1. CallTypes'
    BY <1>8, ReturnTyped DEF ReportEnd
  <2>2. PICK s \in Sessions : call[p].sessions = {s}
    BY <1>8 DEF ReportEnd, Typed, ActorTypes, CallTypes
  <2>3. Report(s)
    BY <1>8, <2>2 DEF ReportEnd
  <2> QED BY <1>8, <2>1, <2>3, ReportTyped DEF ReportEnd, Typed, AccountTypes, FileTypes,
                          SessionTypes, ActorTypes, accountVars, fileVars, sessionVars
<1>9. CASE EraseNowFails(p)
  <2>1. CallTypes'
    BY <1>9, ReturnTyped DEF EraseNowFails
  <2> QED BY <1>9, <2>1 DEF EraseNowFails, Typed, AccountTypes, FileTypes, SessionTypes,
                          ActorTypes, accountVars, fileVars, sessionVars, reportVars
<1>10. CASE ProcessKilled(p)
  <2>1. CallTypes'
    BY <1>10, ReturnTyped DEF ProcessKilled
  <2>2. orphan' \in SUBSET Files /\ silent' \in SUBSET Sessions
    BY <1>1, <1>10 DEF ProcessKilled, Typed, FileTypes, SessionTypes, Calls
  <2> QED BY <1>10, <2>1, <2>2 DEF ProcessKilled, Typed, AccountTypes, FileTypes,
                          SessionTypes, ActorTypes, accountVars, sessionVars
<1> QED BY <1>2, <1>3, <1>4, <1>5, <1>6, <1>7, <1>8, <1>9, <1>10 DEF CallStep

\* Every step of the deletion task keeps the types.
LEMMA TaskTyped ==
    ASSUME Typed, NEW d \in Tasks, NEW u \in Users,
           TaskStep(d) \/ Sweep(d, u) \/ TaskFails(d) \/ WorkerLost(d)
    PROVE  Typed'
<1> DEFINE TasksTyped == /\ task \in [Tasks -> Runs]
                         /\ \A e \in Tasks : task[e].pc # "idle" => task[e].user \in Users
<1>1. task[d] \in Runs /\ (task[d].pc # "idle" => task[d].user \in Users)
  BY DEF Typed, ActorTypes
<1>2. NoRun \in Runs /\ NoRun.pc = "idle"
  BY RunsTyped DEF NoRun, Work
<1>3. \A v \in Users, n \in 0..MaxRetries :
         /\ Message(v, n) \in Runs
         /\ Message(v, n).user = v
  BY RunsTyped DEF Message, Work
<1>4. 0 \in 0..MaxRetries
  BY ConstantsAssumption
<1>5. CASE Sweep(d, u)
  <2>1. TasksTyped'
    BY <1>3, <1>4, <1>5, RunTyped DEF Sweep
  <2> QED BY <1>5, <2>1 DEF Sweep, Typed, AccountTypes, FileTypes, SessionTypes,
                          ActorTypes, CallTypes, accountVars, fileVars, sessionVars, reportVars
<1>6. CASE LoadUser(d)
  <2>1. /\ Work("locked", task[d].user, PathsOf(task[d].user), task[d].retries) \in Runs
        /\ Work("locked", task[d].user, PathsOf(task[d].user), task[d].retries).user
             = task[d].user
    BY <1>1, <1>6 DEF Work, PathsOf, Runs, Typed, FileTypes
  <2>2. TasksTyped'
    BY <1>1, <1>2, <1>6, <2>1, RunTyped DEF LoadUser
  <2> QED BY <1>6, <2>2 DEF LoadUser, Typed, AccountTypes, FileTypes, SessionTypes,
                          ActorTypes, CallTypes, accountVars, fileVars, sessionVars, reportVars
<1>7. CASE EraseScheduled(d)
  <2>1. /\ Work("files", task[d].user, task[d].paths, task[d].retries) \in Runs
        /\ Work("files", task[d].user, task[d].paths, task[d].retries).user = task[d].user
    BY <1>1 DEF Work, Runs
  <2>2. TasksTyped'
    BY <1>1, <1>7, <2>1, RunTyped DEF EraseScheduled
  <2>3. AccountTypes' /\ FileTypes' /\ SessionTypes'
    BY <1>1, <1>7, EraseTyped DEF EraseScheduled, reportVars, Person
  <2> QED BY <1>7, <2>2, <2>3 DEF EraseScheduled, Typed, ActorTypes, CallTypes
<1>8. CASE RemoveScheduled(d)
  <2>1. TasksTyped'
    BY <1>2, <1>8, RunTyped DEF RemoveScheduled
  <2>2. FileTypes'
    BY <1>1, <1>8, RemoveTyped DEF RemoveScheduled, Runs
  <2> QED BY <1>8, <2>1, <2>2 DEF RemoveScheduled, Typed, AccountTypes, SessionTypes,
                          ActorTypes, CallTypes, accountVars, sessionVars, reportVars
<1>9. CASE TaskFails(d)
  <2>1. task[d].user \in Users /\ task[d].retries \in 0..MaxRetries
    BY <1>1, <1>9 DEF TaskFails, Runs
  <2>2. Again(task[d]) \in Runs /\ (Again(task[d]).pc # "idle" => Again(task[d]).user \in Users)
    <3>1. CASE task[d].retries < MaxRetries
      <4>1. task[d].retries + 1 \in 0..MaxRetries
        BY <2>1, <3>1, ConstantsAssumption
      <4> QED BY <1>3, <2>1, <3>1, <4>1 DEF Again
    <3>2. CASE ~(task[d].retries < MaxRetries)
      BY <1>2, <3>2 DEF Again
    <3> QED BY <3>1, <3>2
  <2>3. TasksTyped'
    BY <1>2, <1>9, <2>2, RunTyped DEF TaskFails
  <2> QED BY <1>9, <2>3 DEF TaskFails, Typed, AccountTypes, FileTypes, SessionTypes,
                          ActorTypes, CallTypes, accountVars, fileVars, sessionVars, reportVars
<1>10. CASE WorkerLost(d)
  <2>1. TasksTyped'
    BY <1>1, <1>2, <1>3, <1>4, <1>10, RunTyped DEF WorkerLost
  <2>2. orphan' \in SUBSET Files
    BY <1>1, <1>10 DEF WorkerLost, Typed, FileTypes, Runs
  <2> QED BY <1>10, <2>1, <2>2 DEF WorkerLost, Typed, AccountTypes, FileTypes, SessionTypes,
                          ActorTypes, CallTypes, accountVars, sessionVars, reportVars
<1> QED BY <1>5, <1>6, <1>7, <1>8, <1>9, <1>10 DEF TaskStep

\* Every step of the reaper keeps the types.
LEMMA WatchdogTyped ==
    ASSUME Typed, NEW k \in Reapers, ReaperStep(k) \/ ReaperLost(k)
    PROVE  Typed'
<1> DEFINE Sweeps == [pc : {"idle", "read", "report"}, todo : SUBSET Sessions]
<1>1. reaper[k] \in Sweeps /\ reaper[k].todo \in SUBSET Sessions
  BY DEF Typed, ActorTypes
<1>2. NoSweep \in Sweeps
  BY DEF NoSweep
<1>3. CASE ReadCandidates(k)
  <2>1. reaper' \in [Reapers -> Sweeps]
    BY <1>3 DEF ReadCandidates, Typed, ActorTypes
  <2> QED BY <1>3, <2>1 DEF ReadCandidates, Typed, AccountTypes, FileTypes, SessionTypes,
                          ActorTypes, CallTypes, accountVars, fileVars, sessionVars, reportVars
<1>4. CASE Reap(k)
  <2> DEFINE closed == Closable(reaper[k].todo)
  <2>1. [pc |-> "report", todo |-> Won(k, sess')] \in Sweeps
    BY <1>1 DEF Won
  <2>2. reaper' \in [Reapers -> Sweeps]
    BY <1>2, <1>4, <2>1 DEF Reap, Typed, ActorTypes
  <2>3. Close(closed, "timeout", k)
    BY <1>4 DEF Reap
  <2>4. SessionTypes'
    <3> HIDE DEF closed
    <3>1. k # "none"
      BY ConstantsAssumption
    <3>2. \A s \in Sessions : sess[s] \in Rows /\ sess'[s] \in Rows
      BY <2>3 DEF Close, Typed, SessionTypes, Session, Rows, Ended
    <3>3. \A s \in Sessions : (sess'[s].state \in Ended) <=> sess'[s].by # "none"
      BY <2>3, <3>1 DEF Close, Typed, SessionTypes, Session, Ended
    <3>4. sess' \in [Sessions -> Rows]
      BY <2>3, <3>2 DEF Close
    <3> QED BY <1>4, <3>3, <3>4 DEF Reap, Typed, SessionTypes, reportVars
  <2> QED BY <1>4, <2>2, <2>4 DEF Reap, Typed, AccountTypes, FileTypes, ActorTypes,
                          CallTypes, accountVars, fileVars
<1>5. CASE ReapReports(k)
  <2>1. PICK s \in reaper[k].todo :
           /\ Report(s)
           /\ reaper' = [reaper EXCEPT ![k] =
                          IF reaper[k].todo = {s} THEN NoSweep
                          ELSE [pc |-> "report", todo |-> reaper[k].todo \ {s}]]
    BY <1>5 DEF ReapReports
  <2>2. [pc |-> "report", todo |-> reaper[k].todo \ {s}] \in Sweeps
    BY <1>1
  <2>3. reaper' \in [Reapers -> Sweeps]
    BY <1>2, <2>1, <2>2 DEF Typed, ActorTypes
  <2>4. reported' \in [Sessions -> Nat] /\ silent' \in SUBSET Sessions
    BY <1>1, <2>1, ReportTyped
  <2> QED BY <1>5, <2>3, <2>4 DEF ReapReports, Typed, AccountTypes, FileTypes, SessionTypes,
                          ActorTypes, CallTypes, accountVars, fileVars, sessionVars
<1>6. CASE ReaperLost(k)
  <2>1. reaper' \in [Reapers -> Sweeps] /\ silent' \in SUBSET Sessions
    BY <1>1, <1>2, <1>6 DEF ReaperLost, Typed, ActorTypes, SessionTypes
  <2> QED BY <1>6, <2>1 DEF ReaperLost, Typed, AccountTypes, FileTypes, SessionTypes,
                          ActorTypes, CallTypes, accountVars, fileVars, sessionVars
<1> QED BY <1>3, <1>4, <1>5, <1>6 DEF ReaperStep

\* Every step keeps the types.
LEMMA StepTyped == Typed /\ [Next]_vars => Typed'
<1> SUFFICES ASSUME Typed, [Next]_vars PROVE Typed'
  OBVIOUS
<1>1. ASSUME NEW u \in Users, GracePeriodEnds(u) PROVE Typed'
  BY <1>1 DEF GracePeriodEnds, Typed, AccountTypes, FileTypes, SessionTypes,
              ActorTypes, CallTypes, fileVars, sessionVars, reportVars
<1>2. ASSUME NEW s \in Sessions, TokenExpires(s) PROVE Typed'
  BY <1>2 DEF TokenExpires, Typed, AccountTypes, FileTypes, SessionTypes,
              ActorTypes, CallTypes, accountVars, fileVars, reportVars
<1>3. CASE UNCHANGED vars
  BY <1>3 DEF vars, Typed, AccountTypes, FileTypes, SessionTypes, ActorTypes, CallTypes,
              accountVars, fileVars, sessionVars, reportVars
<1>4. CASE AccountStep \/ SessionStep
  BY <1>1, <1>2, <1>4, RequestsTyped, TaskTyped DEF AccountStep, SessionStep
<1>5. CASE \E p \in Processes : CallStep(p)
  BY <1>5, CallStepTyped
<1>6. CASE \E d \in Tasks : TaskStep(d)
  <2>1. PICK d \in Tasks : TaskStep(d)
    BY <1>6
  <2>2. task[d].user \in Users
    BY <2>1 DEF TaskStep, LoadUser, EraseScheduled, RemoveScheduled, Typed, ActorTypes
  <2> QED BY <2>1, <2>2, TaskTyped
<1>7. CASE \E k \in Reapers : ReaperStep(k)
  BY <1>7, WatchdogTyped
<1>8. CASE Trouble
  <2>1. ASSUME NEW d \in Tasks, TaskFails(d) \/ WorkerLost(d) PROVE Typed'
    <3>1. task[d].user \in Users
      BY <2>1 DEF TaskFails, WorkerLost, Typed, ActorTypes
    <3> QED BY <2>1, <3>1, TaskTyped
  <2> QED BY <1>8, <2>1, CallStepTyped, WatchdogTyped DEF Trouble
<1> QED BY <1>3, <1>4, <1>5, <1>6, <1>7, <1>8 DEF Next

-----------------------------------------------------------------------------
(***************************************************************************)
(* The end of a session is reported once                                   *)
(***************************************************************************)

\* Who is about to report the end of s closed it, and nobody reported it yet.
Reports(p, s) == call[p].op = "report" /\ s \in call[p].sessions

Ends ==
    /\ \A s \in Sessions : reported[s] <= 1 /\ (sess[s].state \notin Ended => reported[s] = 0)
    /\ \A p \in Processes, s \in Sessions :
          Reports(p, s) => sess[s].state = "manual" /\ reported[s] = 0
    /\ \A p, q \in Processes, s \in Sessions : Reports(p, s) /\ Reports(q, s) => p = q
    /\ \A k \in Reapers : reaper[k].pc = "report" =>
          \A s \in reaper[k].todo :
             sess[s].state = "timeout" /\ sess[s].by = k /\ reported[s] = 0
    /\ \A k \in Reapers : reaper[k].pc = "read" =>
          \A s \in reaper[k].todo : ~(sess[s].state = "timeout" /\ sess[s].by = k)

\* Steps that close and report nothing keep Ends.
LEMMA EndsFrame ==
    ASSUME Typed, Ends,
           \A s \in Sessions : sess'[s].state = sess[s].state /\ sess'[s].by = sess[s].by,
           UNCHANGED <<reported, reaper>>,
           \A p \in Processes : call'[p].op = "report" => call'[p] = call[p]
    PROVE  Ends'
<1>1. \A p \in Processes, s \in Sessions : Reports(p, s)' => Reports(p, s)
  BY DEF Reports
<1>2. \A k \in Reapers : reaper[k].todo \subseteq Sessions
  BY DEF Typed, ActorTypes
<1> QED BY <1>1, <1>2 DEF Ends

\* Erasing an account ends no session twice.
LEMMA EraseKeepsEnds ==
    ASSUME NEW u, NEW how, Erase(u, how)
    PROVE  \A s \in Sessions : sess'[s].state = sess[s].state /\ sess'[s].by = sess[s].by
BY DEF Erase, Forgets, Session

\* The end of a call changes no session and no report.
LEMMA ReturnFrame ==
    ASSUME Typed, NEW p \in Processes, Return(p)
    PROVE  \A q \in Processes : call'[q].op \in {"report", "upload", "erase"} =>
              call'[q] = call[q] /\ q # p
BY DEF Return, Idle, Request, Typed, ActorTypes, CallTypes

\* Requests on accounts report no end.
LEMMA RequestsKeepEnds ==
    ASSUME Typed, Ends, NEW p \in Processes,
           \/ \E u \in Users : RequestDeletion(p, u) \/ CancelDeletion(p, u) \/ EraseNow(p, u)
           \/ \E u \in Users, f \in Files : StoreFile(p, u, f)
           \/ \E u, t \in Users : StartImpersonation(p, u, t)
           \/ \E s \in Sessions : EndImpersonation(p, s)
    PROVE  Ends'
<1>1. \A q \in Processes : call'[q].op = "report" => call'[q] = call[q]
  BY DEF RequestDeletion, CancelDeletion, EraseNow, StoreFile, StartImpersonation,
         EndImpersonation, Begin, Request, Typed, ActorTypes, CallTypes
<1>2. UNCHANGED <<sess, reported, reaper>>
  BY DEF RequestDeletion, CancelDeletion, EraseNow, StoreFile, StartImpersonation,
         EndImpersonation, sessionVars, reportVars
<1> QED BY <1>1, <1>2, EndsFrame

\* A call reports an end only for a session it closed itself.
LEMMA CallKeepsEnds ==
    ASSUME Typed, Ends, NEW p \in Processes,
           CallStep(p) \/ EraseNowFails(p) \/ ProcessKilled(p)
    PROVE  Ends'
<1>1. CASE StoreRequest(p) \/ RemoveFiles(p) \/ InsertRow(p) \/ EraseNowFails(p)
           \/ ProcessKilled(p)
  <2>1. Return(p) /\ UNCHANGED <<sess, reported, reaper>>
    BY <1>1 DEF StoreRequest, RemoveFiles, InsertRow, EraseNowFails, ProcessKilled,
                sessionVars, reportVars
  <2> QED BY <2>1, ReturnFrame, EndsFrame
<1>2. CASE EraseNowCommits(p)
  <2>1. \A q \in Processes : call'[q].op = "report" => call'[q] = call[q]
    BY <1>2 DEF EraseNowCommits, Request, Typed, ActorTypes, CallTypes
  <2> QED BY <1>2, <2>1, EraseKeepsEnds, EndsFrame DEF EraseNowCommits, reportVars
<1>3. CASE CommitSession(p)
  <2>1. /\ \A q \in Processes : call'[q].op = "report" => call'[q] = call[q]
        /\ UNCHANGED <<reported, reaper>>
    BY <1>3, ReturnFrame DEF CommitSession, reportVars
  <2>2. CASE UNCHANGED sess
    BY <2>1, <2>2, EndsFrame
  <2>3. CASE \E s \in Sessions :
                /\ sess[s].state = "none"
                /\ sess' = [sess EXCEPT ![s] = Session("active", call[p].user,
                                                       call[p].target, "none")]
    <3>1. PICK s \in Sessions :
                /\ sess[s].state = "none"
                /\ sess' = [sess EXCEPT ![s] = Session("active", call[p].user,
                                                       call[p].target, "none")]
      BY <2>3
    <3>2. sess'[s].state = "active" /\ \A x \in Sessions \ {s} : sess'[x] = sess[x]
      BY <3>1 DEF Session, Typed, SessionTypes
    <3>3. \A q \in Processes, x \in Sessions : Reports(q, x)' => Reports(q, x)
      BY <2>1 DEF Reports
    <3>4. \A k \in Reapers : reaper[k].todo \subseteq Sessions
      BY DEF Typed, ActorTypes
    <3> QED BY <2>1, <3>1, <3>2, <3>3, <3>4 DEF Ends, Ended
  <2> QED BY <1>3, <2>2, <2>3 DEF CommitSession
<1>4. CASE CloseSession(p)
  <2>1. PICK s \in Sessions : call[p].sessions = {s}
    BY <1>4 DEF CloseSession, Typed, ActorTypes, CallTypes
  <2>2. UNCHANGED <<reported, reaper>>
    BY <1>4 DEF CloseSession, reportVars
  <2>3. CASE sess[s].state # "active"
    <3>1. Closable(call[p].sessions) = {}
      BY <2>1, <2>3 DEF Closable
    <3>2. Return(p) /\ \A x \in Sessions : sess'[x] = sess[x]
      BY <1>4, <3>1 DEF CloseSession, Close
    <3> QED BY <2>2, <3>2, ReturnFrame, EndsFrame
  <2>4. CASE sess[s].state = "active"
    <3>1. Closable(call[p].sessions) = {s}
      BY <2>1, <2>4 DEF Closable
    <3>2. /\ sess'[s].state = "manual"
          /\ \A x \in Sessions \ {s} : sess'[x] = sess[x]
          /\ call' = [call EXCEPT ![p] = Request("report", Nobody, Nobody, {}, {s})]
      BY <1>4, <3>1 DEF CloseSession, Close, Session
    <3>3. \A q \in Processes, x \in Sessions :
             Reports(q, x)' => (q = p /\ x = s) \/ (q # p /\ Reports(q, x))
      BY <3>2 DEF Reports, Request, Typed, ActorTypes, CallTypes
    <3>4. \A q \in Processes : ~Reports(q, s)
      BY <2>4 DEF Ends
    <3>5. \A k \in Reapers : reaper[k].todo \subseteq Sessions
      BY DEF Typed, ActorTypes
    <3>6. reported[s] = 0
      BY <2>4 DEF Ends, Ended
    <3> QED BY <2>2, <2>4, <3>2, <3>3, <3>4, <3>5, <3>6 DEF Ends, Ended
  <2> QED BY <2>3, <2>4
<1>5. CASE ReportEnd(p)
  <2>1. PICK s \in Sessions : call[p].sessions = {s}
    BY <1>5 DEF ReportEnd, Typed, ActorTypes, CallTypes
  <2>2. Report(s) /\ Reports(p, s)
    BY <1>5, <2>1 DEF ReportEnd, Reports
  <2>3. /\ sess[s].state = "manual" /\ reported[s] = 0
        /\ \A q \in Processes : Reports(q, s) => q = p
    BY <2>2 DEF Ends
  <2>4. /\ reported'[s] \in {0, 1}
        /\ \A x \in Sessions \ {s} : reported'[x] = reported[x]
    BY <2>2, <2>3 DEF Report, Typed, SessionTypes
  <2>5. \A q \in Processes, x \in Sessions : Reports(q, x)' => Reports(q, x) /\ q # p
    BY <1>5, ReturnFrame DEF ReportEnd, Reports
  <2>6. UNCHANGED <<sess, reaper>>
    BY <1>5 DEF ReportEnd, sessionVars
  <2>7. \A k \in Reapers : reaper[k].todo \subseteq Sessions
    BY DEF Typed, ActorTypes
  <2> QED BY <2>3, <2>4, <2>5, <2>6, <2>7 DEF Ends, Ended
<1> QED BY <1>1, <1>2, <1>3, <1>4, <1>5 DEF CallStep

\* The reaper reports only the sessions whose closing UPDATE it won.
LEMMA WatchdogKeepsEnds ==
    ASSUME Typed, Ends, NEW k \in Reapers, ReaperStep(k) \/ ReaperLost(k)
    PROVE  Ends'
<1>1. \A j \in Reapers : reaper[j].todo \subseteq Sessions
  BY DEF Typed, ActorTypes
<1>2. UNCHANGED call
  BY DEF ReaperStep, ReadCandidates, Reap, ReapReports, ReaperLost
<1>3. \A q \in Processes, x \in Sessions : Reports(q, x)' <=> Reports(q, x)
  BY <1>2 DEF Reports
<1>4. CASE ReadCandidates(k)
  <2>1. /\ reaper'[k].pc = "read"
        /\ \A s \in reaper'[k].todo : s \in Sessions /\ sess[s].state = "active"
        /\ \A j \in Reapers \ {k} : reaper'[j] = reaper[j]
        /\ UNCHANGED <<sess, reported>>
    BY <1>4 DEF ReadCandidates, Reapable, Typed, ActorTypes, sessionVars, reportVars
  <2> QED BY <1>1, <1>3, <2>1 DEF Ends
<1>5. CASE ReaperLost(k)
  <2>1. /\ reaper'[k].pc = "idle"
        /\ \A j \in Reapers \ {k} : reaper'[j] = reaper[j]
        /\ UNCHANGED <<sess, reported>>
    BY <1>5 DEF ReaperLost, NoSweep, Typed, ActorTypes, sessionVars
  <2> QED BY <1>1, <1>3, <2>1 DEF Ends
<1>6. CASE ReapReports(k)
  <2>1. PICK s \in reaper[k].todo :
           /\ Report(s)
           /\ reaper' = [reaper EXCEPT ![k] =
                          IF reaper[k].todo = {s} THEN NoSweep
                          ELSE [pc |-> "report", todo |-> reaper[k].todo \ {s}]]
    BY <1>6 DEF ReapReports
  <2>2. /\ s \in Sessions /\ sess[s].state = "timeout" /\ sess[s].by = k /\ reported[s] = 0
    BY <1>1, <1>6, <2>1 DEF ReapReports, Ends
  <2>3. /\ reported'[s] \in {0, 1}
        /\ \A x \in Sessions \ {s} : reported'[x] = reported[x]
    BY <2>1, <2>2 DEF Report, Typed, SessionTypes
  <2>4. /\ reaper'[k].pc \in {"idle", "report"}
        /\ reaper'[k].todo = reaper[k].todo \ {s}
        /\ \A j \in Reapers \ {k} : reaper'[j] = reaper[j]
    BY <2>1 DEF NoSweep, Typed, ActorTypes
  <2>5. UNCHANGED sess
    BY <1>6 DEF ReapReports, sessionVars
  <2>6. reaper[k].pc = "report"
    BY <1>6 DEF ReapReports
  <2> QED BY <1>1, <1>3, <2>2, <2>3, <2>4, <2>5, <2>6 DEF Ends, Ended
<1>7. CASE Reap(k)
  <2>1. /\ reaper[k].pc = "read"
        /\ UNCHANGED reported
        /\ Close(Closable(reaper[k].todo), "timeout", k)
    BY <1>7 DEF Reap, reportVars
  <2>2. \A s \in Sessions :
           IF s \in reaper[k].todo /\ sess[s].state = "active"
           THEN sess'[s].state = "timeout" /\ sess'[s].by = k
           ELSE sess'[s] = sess[s]
    BY <2>1 DEF Close, Closable, Session
  <2>3. /\ reaper'[k].pc \in {"idle", "report"}
        /\ \A s \in reaper'[k].todo :
              /\ s \in reaper[k].todo
              /\ sess'[s].state = "timeout" /\ sess'[s].by = k
        /\ \A j \in Reapers \ {k} : reaper'[j] = reaper[j]
    BY <1>7 DEF Reap, Won, NoSweep, Typed, ActorTypes
  <2>4. \A s \in reaper'[k].todo : reported[s] = 0
    BY <1>1, <2>1, <2>2, <2>3 DEF Ends, Ended
  <2> QED BY <1>1, <1>3, <2>1, <2>2, <2>3, <2>4 DEF Ends, Ended
<1> QED BY <1>4, <1>5, <1>6, <1>7 DEF ReaperStep

\* Every step keeps what ends and reports owe each other.
LEMMA StepEnds == Typed /\ Ends /\ [Next]_vars => Ends'
<1> SUFFICES ASSUME Typed, Ends, [Next]_vars PROVE Ends'
  OBVIOUS
<1>1. ASSUME NEW u \in Users, GracePeriodEnds(u) PROVE Ends'
  BY <1>1, EndsFrame DEF GracePeriodEnds, sessionVars, reportVars
<1>2. ASSUME NEW s \in Sessions, TokenExpires(s) PROVE Ends'
  BY <1>2, EndsFrame DEF TokenExpires, reportVars
<1>3. CASE UNCHANGED vars
  BY <1>3, EndsFrame DEF vars, sessionVars, reportVars
<1>4. ASSUME NEW d \in Tasks, NEW u \in Users, Sweep(d, u) PROVE Ends'
  BY <1>4, EndsFrame DEF Sweep, sessionVars, reportVars
<1>5. ASSUME NEW d \in Tasks, TaskStep(d) \/ TaskFails(d) \/ WorkerLost(d) PROVE Ends'
  <2>1. CASE EraseScheduled(d)
    BY <2>1, EraseKeepsEnds, EndsFrame DEF EraseScheduled, reportVars
  <2>2. CASE ~EraseScheduled(d)
    BY <1>5, <2>2, EndsFrame DEF TaskStep, LoadUser, RemoveScheduled, TaskFails, WorkerLost,
                                 sessionVars, reportVars
  <2> QED BY <2>1, <2>2
<1>6. CASE AccountStep \/ SessionStep
  BY <1>1, <1>2, <1>4, <1>6, RequestsKeepEnds DEF AccountStep, SessionStep
<1>7. CASE Trouble
  BY <1>5, <1>7, CallKeepsEnds, WatchdogKeepsEnds DEF Trouble
<1> QED BY <1>3, <1>5, <1>6, <1>7, CallKeepsEnds, WatchdogKeepsEnds DEF Next

\* The end of a session is recorded and mailed at most once, and only of a
\* session that ended, for any number of requests and overlapping watchdogs.
THEOREM EndsReportedOnce == Spec => []EndReportedOnce
<1>1. Init => Typed /\ Ends
  <2> SUFFICES ASSUME Init PROVE Typed /\ Ends
    OBVIOUS
  <2>1. /\ \A s \in Sessions : reported[s] = 0
        /\ \A p \in Processes : call[p].op = "idle"
        /\ \A k \in Reapers : reaper[k].pc = "idle"
    BY DEF Init, Idle, Request, NoSweep
  <2> QED BY <2>1, InitTyped DEF Ends, Reports
<1>2. Typed /\ Ends /\ [Next]_vars => (Typed /\ Ends)'
  BY StepTyped, StepEnds
<1>3. Typed /\ Ends => EndReportedOnce
  BY DEF Typed, SessionTypes, Ends, EndReportedOnce
<1> QED BY <1>1, <1>2, <1>3, PTL DEF Spec

-----------------------------------------------------------------------------
(***************************************************************************)
(* The row of a user that is locked for deletion does not change           *)
(***************************************************************************)

\* A deletion task under its lock works on a due account, with all its files,
\* and is alone with it.
Locks ==
    /\ \A d \in Tasks, u \in Users : task[d].pc = "locked" /\ task[d].user = u =>
          account[u] = "due" /\ Erasing(u) = {} /\ task[d].paths = PathsOf(u)
    /\ \A d, e \in Tasks :
          task[d].pc = "locked" /\ task[e].pc = "locked" /\ task[d].user = task[e].user => d = e

\* Steps that leave the locked users and their rows alone keep Locks.
LEMMA LocksFrame ==
    ASSUME Typed, Locks,
           \A d \in Tasks : task'[d].pc = "locked" => task'[d] = task[d],
           \A u \in Users : Locked(u) =>
              account'[u] = account[u] /\ Erasing(u)' = Erasing(u) /\ PathsOf(u)' = PathsOf(u)
    PROVE  Locks'
<1>1. ASSUME NEW d \in Tasks, NEW u \in Users, task'[d].pc = "locked", task'[d].user = u
      PROVE  account'[u] = "due" /\ Erasing(u)' = {} /\ task'[d].paths = PathsOf(u)'
  <2>1. task'[d] = task[d]
    BY <1>1
  <2>2. Locked(u)
    BY <1>1, <2>1 DEF Locked
  <2>3. account[u] = "due" /\ Erasing(u) = {} /\ task[d].paths = PathsOf(u)
    BY <1>1, <2>1 DEF Locks
  <2> QED BY <2>1, <2>2, <2>3
<1>2. \A d, e \in Tasks :
         task'[d].pc = "locked" /\ task'[e].pc = "locked" /\ task'[d].user = task'[e].user => d = e
  BY DEF Locks
<1> QED BY <1>1, <1>2 DEF Locks

\* Every upload under way is of its user's file.
Uploads ==
    \A p \in Processes : call[p].op = "upload" =>
        call[p].user \in Users /\ \A f \in call[p].files : owner[f] = call[p].user

\* No row of a document outlives its user.
RowsOwned == \A f \in rows : Exists(owner[f])

\* A stored file has a row, or is being uploaded or removed, or its owner was
\* deleted at once.
Accounted(f) ==
    \/ owner[f] = Nobody \/ f \in rows \/ erased[owner[f]] = "immediately"
    \/ \E d \in Tasks : task[d].pc = "files" /\ f \in task[d].paths
    \/ \E p \in Processes : call[p].op = "upload" /\ f \in call[p].files

Kept == Uploads /\ RowsOwned /\ \A f \in stored \ orphan : Accounted(f)

Safe == Typed /\ Locks /\ Kept

\* Steps on sessions and of the watchdog keep Locks and Kept.
LEMMA SafeFrame ==
    ASSUME Safe, UNCHANGED <<account, erased, owner, rows, stored, orphan, task>>,
           \A p \in Processes :
              /\ call'[p].op \in {"upload", "erase"} => call'[p] = call[p]
              /\ call[p].op \in {"upload", "erase"} => call'[p] = call[p]
    PROVE  Locks' /\ Kept'
<1>1. \A u \in Users : Erasing(u)' = Erasing(u) /\ PathsOf(u)' = PathsOf(u)
  BY DEF Erasing, PathsOf
<1>2. Locks'
  BY <1>1, LocksFrame DEF Safe
<1>3. Uploads' /\ RowsOwned'
  BY DEF Safe, Kept, Uploads, RowsOwned, Exists
<1>4. \A f \in stored \ orphan : Accounted(f)'
  BY DEF Safe, Kept, Accounted
<1> QED BY <1>2, <1>3, <1>4 DEF Kept

\* Requests on accounts keep files and rows together.
LEMMA RequestsKeepSafe ==
    ASSUME Safe, NEW p \in Processes,
           \/ \E u \in Users : RequestDeletion(p, u) \/ CancelDeletion(p, u) \/ EraseNow(p, u)
           \/ \E u \in Users, f \in Files : StoreFile(p, u, f)
           \/ \E u, t \in Users : StartImpersonation(p, u, t)
           \/ \E s \in Sessions : EndImpersonation(p, s)
    PROVE  Locks' /\ Kept'
<1>1. ASSUME \/ \E u \in Users : RequestDeletion(p, u) \/ CancelDeletion(p, u)
             \/ \E u, t \in Users : StartImpersonation(p, u, t)
             \/ \E s \in Sessions : EndImpersonation(p, s)
      PROVE  Locks' /\ Kept'
  <2>1. \A q \in Processes :
           /\ call'[q].op \in {"upload", "erase"} => call'[q] = call[q]
           /\ call[q].op \in {"upload", "erase"} => call'[q] = call[q]
    BY <1>1 DEF RequestDeletion, CancelDeletion, StartImpersonation, EndImpersonation,
                Begin, Request, Safe, Typed, ActorTypes, CallTypes
  <2>2. UNCHANGED <<account, erased, owner, rows, stored, orphan, task>>
    BY <1>1 DEF RequestDeletion, CancelDeletion, StartImpersonation, EndImpersonation,
                accountVars, fileVars
  <2> QED BY <2>1, <2>2, SafeFrame
<1>2. ASSUME NEW u \in Users, EraseNow(p, u)
      PROVE  Locks' /\ Kept'
  <2>1. /\ ~Locked(u)
        /\ call[p].op = "idle"
        /\ call'[p].op = "erase" /\ call'[p].user = u
        /\ \A q \in Processes \ {p} : call'[q] = call[q]
        /\ UNCHANGED <<account, erased, owner, rows, stored, orphan, task>>
    BY <1>2 DEF EraseNow, Begin, Request, accountVars, fileVars, Safe, Typed, ActorTypes,
                CallTypes
  <2>2. \A v \in Users : Locked(v) => Erasing(v)' = Erasing(v) /\ PathsOf(v)' = PathsOf(v)
    BY <2>1 DEF Erasing, PathsOf
  <2>3. Locks'
    BY <2>1, <2>2, LocksFrame DEF Safe
  <2>4. Uploads' /\ RowsOwned' /\ \A f \in stored \ orphan : Accounted(f)'
    BY <2>1 DEF Safe, Kept, Uploads, RowsOwned, Exists, Accounted
  <2> QED BY <2>1, <2>3, <2>4 DEF Kept
<1>3. ASSUME NEW u \in Users, NEW f \in Files, StoreFile(p, u, f)
      PROVE  Locks' /\ Kept'
  <2>1. /\ call[p].op = "idle" /\ owner[f] = Nobody
        /\ call'[p].op = "upload" /\ call'[p].user = u /\ call'[p].files = {f}
        /\ \A q \in Processes \ {p} : call'[q] = call[q]
        /\ owner'[f] = u /\ \A g \in Files \ {f} : owner'[g] = owner[g]
        /\ stored' = stored \cup {f}
        /\ UNCHANGED <<account, erased, rows, orphan, task>>
    BY <1>3 DEF StoreFile, Begin, Request, accountVars, Safe, Typed, ActorTypes, CallTypes,
                FileTypes
  <2>2. f \notin rows /\ rows \subseteq Files /\ stored \subseteq Files
    BY <2>1, ConstantsAssumption DEF Safe, Kept, RowsOwned, Exists, Typed, FileTypes
  <2>3. \A q \in Processes : call[q].op = "upload" =>
           f \notin call[q].files /\ call[q].files \subseteq Files
    BY <2>1, ConstantsAssumption DEF Safe, Kept, Uploads, Typed, ActorTypes, CallTypes, Calls
  <2>4. \A v \in Users : Erasing(v)' = Erasing(v) /\ PathsOf(v)' = PathsOf(v)
    BY <2>1, <2>2 DEF Erasing, PathsOf
  <2>5. Locks'
    BY <2>1, <2>4, LocksFrame DEF Safe
  <2>6. Uploads'
    BY <2>1, <2>3 DEF Safe, Kept, Uploads
  <2>7. RowsOwned'
    BY <2>1, <2>2 DEF Safe, Kept, RowsOwned, Exists
  <2>8. \A g \in stored' \ orphan' : Accounted(g)'
    BY <2>1, <2>2 DEF Safe, Kept, Accounted
  <2> QED BY <2>5, <2>6, <2>7, <2>8 DEF Kept
<1> QED BY <1>1, <1>2, <1>3

\* Uploads and deletions keep files and rows together.
LEMMA CallKeepsSafe ==
    ASSUME Safe, NEW p \in Processes,
           CallStep(p) \/ EraseNowFails(p) \/ ProcessKilled(p)
    PROVE  Locks' /\ Kept'
<1>1. call[p] \in Calls /\ call[p].files \subseteq Files
  BY DEF Safe, Typed, ActorTypes, CallTypes, Calls
<1>2. CASE Return(p) /\ UNCHANGED <<account, erased, owner, rows, task>>
           /\ (call[p].op # "upload" \/ call[p].files \cap (stored' \ orphan') = {})
           /\ stored' \ orphan' \subseteq stored \ orphan
  <2>1. /\ call'[p].op = "idle"
        /\ \A q \in Processes \ {p} : call'[q] = call[q]
    BY <1>2 DEF Return, Idle, Request, Safe, Typed, ActorTypes, CallTypes
  <2>2. \A v \in Users : Locked(v) => Erasing(v)' = Erasing(v) /\ PathsOf(v)' = PathsOf(v)
    BY <1>2, <2>1 DEF Erasing, PathsOf, Safe, Locks, Locked
  <2>3. Locks'
    BY <1>2, <2>2, LocksFrame DEF Safe
  <2>4. Uploads' /\ RowsOwned'
    BY <1>2, <2>1 DEF Safe, Kept, Uploads, RowsOwned, Exists
  <2>5. \A f \in stored' \ orphan' : Accounted(f)'
    BY <1>2, <2>1 DEF Safe, Kept, Accounted
  <2> QED BY <2>3, <2>4, <2>5 DEF Kept
<1>3. CASE StoreRequest(p)
  <2>1. /\ call'[p].op = "idle" /\ call[p].op \notin {"upload", "erase"}
        /\ \A q \in Processes \ {p} : call'[q] = call[q]
    BY <1>3 DEF StoreRequest, Return, Idle, Request, Safe, Typed, ActorTypes, CallTypes
  <2>2. /\ ~Locked(call[p].user)
        /\ \A v \in Users : /\ v # call[p].user => account'[v] = account[v]
                            /\ account'[v] = "deleted" <=> account[v] = "deleted"
        /\ UNCHANGED <<erased, owner, rows, stored, orphan, task>>
    BY <1>3 DEF StoreRequest, fileVars, Safe, Typed, AccountTypes
  <2>3. \A v \in Users : Erasing(v)' = Erasing(v) /\ PathsOf(v)' = PathsOf(v)
    BY <2>1, <2>2 DEF Erasing, PathsOf
  <2>4. Locks'
    BY <2>2, <2>3, LocksFrame DEF Safe
  <2>5. Uploads' /\ RowsOwned'
    BY <2>1, <2>2 DEF Safe, Kept, Uploads, RowsOwned, Exists
  <2>6. \A f \in stored' \ orphan' : Accounted(f)'
    BY <2>1, <2>2 DEF Safe, Kept, Accounted
  <2> QED BY <2>4, <2>5, <2>6 DEF Kept
<1>4. CASE EraseNowCommits(p)
  <2> DEFINE u == call[p].user
  <2>1. /\ call[p].op = "erase" /\ call'[p].op = "remove"
        /\ \A q \in Processes \ {p} : call'[q] = call[q]
    BY <1>4 DEF EraseNowCommits, Request, Safe, Typed, ActorTypes, CallTypes
  <2>2. /\ rows' = {f \in rows : owner[f] # u}
        /\ account' = [account EXCEPT ![u] = "deleted"]
        /\ erased' = [erased EXCEPT ![u] = "immediately"]
        /\ UNCHANGED <<owner, stored, orphan, task>>
    BY <1>4 DEF EraseNowCommits, Erase
  <2>3. p \in Erasing(u)
    BY <2>1 DEF Erasing
  <2>4. \A v \in Users : Locked(v) => v # u
    BY <2>3 DEF Safe, Locks, Locked
  <2>5. \A v \in Users : v # u => Erasing(v)' = Erasing(v) /\ PathsOf(v)' = PathsOf(v)
    BY <2>1, <2>2 DEF Erasing, PathsOf
  <2>6. Locks'
    <3>1. \A v \in Users : v # u => account'[v] = account[v]
      BY <2>2 DEF Safe, Typed, AccountTypes
    <3> QED BY <2>2, <2>4, <2>5, <3>1, LocksFrame DEF Safe
  <2>7. Uploads'
    BY <2>1, <2>2 DEF Safe, Kept, Uploads
  <2>8. RowsOwned'
    BY <2>2 DEF Safe, Kept, RowsOwned, Exists, Typed, AccountTypes
  <2>9. ASSUME NEW f \in stored' \ orphan' PROVE Accounted(f)'
    <3>1. f \in stored \ orphan /\ owner[f] \in Person
      BY <2>2 DEF Safe, Typed, FileTypes
    <3>2. CASE owner[f] = u /\ owner[f] # Nobody
      <4>1. u \in Users /\ erased \in [Users -> {"no", "scheduled", "immediately"}]
        BY <3>1, <3>2 DEF Person, Safe, Typed, AccountTypes
      <4>2. erased'[u] = "immediately"
        BY <2>2, <4>1
      <4>3. erased'[owner'[f]] = "immediately"
        BY <2>2, <3>2, <4>2
      <4> QED BY <4>3 DEF Accounted
    <3>3. CASE owner[f] # u
      <4>1. erased \in [Users -> {"no", "scheduled", "immediately"}]
        BY DEF Safe, Typed, AccountTypes
      <4>2. owner[f] \in Users => erased'[owner[f]] = erased[owner[f]]
        BY <2>2, <3>3, <4>1
      <4>3. owner[f] \in Users \/ owner[f] = Nobody
        BY <3>1 DEF Person
      <4> QED BY <2>1, <2>2, <3>1, <3>3, <4>2, <4>3 DEF Safe, Kept, Accounted
    <3>4. CASE owner[f] = Nobody
      BY <2>2, <3>4 DEF Accounted
    <3> QED BY <3>2, <3>3, <3>4
  <2> QED BY <2>6, <2>7, <2>8, <2>9 DEF Kept
<1>5. CASE InsertRow(p) /\ Exists(call[p].user)
  <2> DEFINE u == call[p].user
  <2>1. /\ call[p].op = "upload" /\ call'[p].op = "idle"
        /\ \A q \in Processes \ {p} : call'[q] = call[q]
        /\ ~Locked(u)
        /\ rows' = rows \cup call[p].files
        /\ UNCHANGED <<account, erased, owner, stored, orphan, task>>
    BY <1>5 DEF InsertRow, Return, Idle, Request, accountVars, Safe, Typed, ActorTypes,
                CallTypes
  <2>2. \A f \in call[p].files : owner[f] = u
    BY <2>1 DEF Safe, Kept, Uploads
  <2>3. \A v \in Users : Locked(v) => Erasing(v)' = Erasing(v) /\ PathsOf(v)' = PathsOf(v)
    BY <2>1, <2>2 DEF Erasing, PathsOf
  <2>4. Locks'
    BY <2>1, <2>3, LocksFrame DEF Safe
  <2>5. Uploads' /\ RowsOwned'
    BY <1>5, <2>1, <2>2 DEF Safe, Kept, Uploads, RowsOwned, Exists
  <2>6. \A f \in stored' \ orphan' : Accounted(f)'
    BY <2>1 DEF Safe, Kept, Accounted
  <2> QED BY <2>4, <2>5, <2>6 DEF Kept
<1>6. CASE InsertRow(p) /\ ~Exists(call[p].user)
  <2>1. /\ Return(p) /\ UNCHANGED <<account, erased, task>>
        /\ Remove(call[p].files)
    BY <1>6 DEF InsertRow, accountVars
  <2> QED BY <1>2, <2>1 DEF Remove
<1>7. CASE RemoveFiles(p)
  <2>1. /\ Return(p) /\ UNCHANGED <<account, erased, task>>
        /\ call[p].op = "remove" /\ Remove(call[p].files)
    BY <1>7 DEF RemoveFiles, accountVars
  <2> QED BY <1>2, <2>1 DEF Remove
<1>8. CASE EraseNowFails(p) \/ ProcessKilled(p)
  BY <1>2, <1>8 DEF EraseNowFails, ProcessKilled, accountVars, fileVars
<1>9. CASE CommitSession(p) \/ ReportEnd(p)
  BY <1>2, <1>9 DEF CommitSession, ReportEnd, accountVars, fileVars
<1>10. CASE CloseSession(p)
  <2>1. UNCHANGED <<account, erased, owner, rows, stored, orphan, task>> /\ call[p].op = "end"
    BY <1>10 DEF CloseSession, accountVars, fileVars
  <2>2. CASE Return(p)
    BY <1>2, <2>1, <2>2
  <2>3. CASE call' = [call EXCEPT ![p] = Request("report", Nobody, Nobody, {},
                                                 Closable(call[p].sessions))]
    <3>1. \A q \in Processes :
             /\ call'[q].op \in {"upload", "erase"} => call'[q] = call[q]
             /\ call[q].op \in {"upload", "erase"} => call'[q] = call[q]
      BY <2>1, <2>3 DEF Request, Safe, Typed, ActorTypes, CallTypes
    <3> QED BY <2>1, <3>1, SafeFrame
  <2> QED BY <1>10, <2>2, <2>3 DEF CloseSession
<1> QED BY <1>3, <1>4, <1>5, <1>6, <1>7, <1>8, <1>9, <1>10 DEF CallStep

\* The deletion task keeps files and rows together.
LEMMA TaskKeepsSafe ==
    ASSUME Safe, NEW d \in Tasks, NEW v \in Users,
           TaskStep(d) \/ Sweep(d, v) \/ TaskFails(d) \/ WorkerLost(d)
    PROVE  Locks' /\ Kept'
<1> DEFINE u == task[d].user
<1>1. task \in [Tasks -> Runs]
  BY DEF Safe, Typed, ActorTypes
<1>2. UNCHANGED <<owner, call>>
  BY DEF TaskStep, LoadUser, EraseScheduled, RemoveScheduled, Remove, Sweep, TaskFails,
         WorkerLost, fileVars
<1>3. CASE /\ UNCHANGED <<account, erased, rows>>
           /\ stored' \ orphan' \subseteq stored \ orphan
           /\ task'[d].pc # "locked" /\ \A e \in Tasks \ {d} : task'[e] = task[e]
           /\ task[d].pc # "files" \/ task[d].paths \cap (stored' \ orphan') = {}
  <2>1. \A w \in Users : Erasing(w)' = Erasing(w) /\ PathsOf(w)' = PathsOf(w)
    BY <1>2, <1>3 DEF Erasing, PathsOf
  <2>2. Locks'
    BY <1>3, <2>1, LocksFrame DEF Safe
  <2>3. Uploads' /\ RowsOwned'
    BY <1>2, <1>3 DEF Safe, Kept, Uploads, RowsOwned, Exists
  <2>4. \A f \in stored' \ orphan' : Accounted(f)'
    BY <1>2, <1>3 DEF Safe, Kept, Accounted
  <2> QED BY <2>2, <2>3, <2>4 DEF Kept
<1>4. CASE Sweep(d, v)
  <2>1. task'[d].pc # "locked" /\ \A e \in Tasks \ {d} : task'[e] = task[e]
    BY <1>1, <1>4 DEF Sweep, Run, Message, Work
  <2> QED BY <1>3, <1>4, <2>1 DEF Sweep, accountVars, fileVars
<1>5. CASE LoadUser(d) /\ ~StillDue(u)
  <2>1. task'[d].pc # "locked" /\ \A e \in Tasks \ {d} : task'[e] = task[e]
    BY <1>1, <1>5 DEF LoadUser, Run, NoRun, Work
  <2> QED BY <1>3, <1>5, <2>1 DEF LoadUser, accountVars, fileVars
<1>6. CASE LoadUser(d) /\ StillDue(u)
  <2>1. /\ task[d].pc = "queued"
        /\ task'[d].pc = "locked" /\ task'[d].user = u /\ task'[d].paths = PathsOf(u)
        /\ \A e \in Tasks \ {d} : task'[e] = task[e]
        /\ account[u] = "due" /\ ~Locked(u) /\ Erasing(u) = {}
        /\ UNCHANGED <<account, erased, rows, stored, orphan>>
    BY <1>1, <1>6 DEF LoadUser, StillDue, Run, Work, accountVars, fileVars
  <2>2. \A w : Erasing(w)' = Erasing(w) /\ PathsOf(w)' = PathsOf(w)
    BY <1>2, <2>1 DEF Erasing, PathsOf
  <2>3. \A e \in Tasks : task[e].pc = "locked" => task[e].user # u
    BY <2>1 DEF Locked
  <2>4. ASSUME NEW e \in Tasks, NEW w \in Users, task'[e].pc = "locked", task'[e].user = w
        PROVE  account'[w] = "due" /\ Erasing(w)' = {} /\ task'[e].paths = PathsOf(w)'
    <3>1. CASE e = d
      <4>1. w = u
        BY <2>1, <2>4, <3>1
      <4>2. account[w] = "due" /\ Erasing(w) = {} /\ task'[d].paths = PathsOf(w)
        BY <2>1, <4>1
      <4> QED BY <2>1, <2>2, <3>1, <4>2
    <3>2. CASE e # d
      <4>1. task'[e] = task[e]
        BY <2>1, <3>2
      <4>2. account[w] = "due" /\ Erasing(w) = {} /\ task[e].paths = PathsOf(w)
        BY <2>4, <4>1 DEF Safe, Locks
      <4> QED BY <2>1, <2>2, <4>1, <4>2
    <3> QED BY <3>1, <3>2
  <2>5. \A e, g \in Tasks : task'[e].pc = "locked" /\ task'[g].pc = "locked"
                               /\ task'[e].user = task'[g].user => e = g
    BY <2>1, <2>3 DEF Safe, Locks
  <2>6. Locks'
    BY <2>4, <2>5 DEF Locks
  <2>7. Uploads' /\ RowsOwned'
    BY <1>2, <2>1 DEF Safe, Kept, Uploads, RowsOwned, Exists
  <2>8. \A f \in stored' \ orphan' : Accounted(f)'
    BY <1>2, <2>1 DEF Safe, Kept, Accounted
  <2> QED BY <2>6, <2>7, <2>8 DEF Kept
<1>7. CASE EraseScheduled(d)
  <2>1. /\ task[d].pc = "locked" /\ task[d].paths = PathsOf(u) /\ u \in Users
        /\ \A e \in Tasks : task[e].pc = "locked" /\ task[e].user = u => e = d
    BY <1>7 DEF EraseScheduled, Safe, Locks, Typed, ActorTypes
  <2>2. /\ task'[d].pc = "files" /\ task'[d].paths = PathsOf(u)
        /\ \A e \in Tasks \ {d} : task'[e] = task[e]
    BY <1>1, <1>7, <2>1 DEF EraseScheduled, Run, Work
  <2>3. /\ rows' = {f \in rows : owner[f] # u}
        /\ account' = [account EXCEPT ![u] = "deleted"]
        /\ erased' = [erased EXCEPT ![u] = "scheduled"]
        /\ UNCHANGED <<stored, orphan>>
    BY <1>7 DEF EraseScheduled, Erase
  <2>4. \A w \in Users : w # u => /\ account'[w] = account[w]
                                  /\ erased'[w] = erased[w]
                                  /\ Erasing(w)' = Erasing(w) /\ PathsOf(w)' = PathsOf(w)
    BY <1>2, <2>3 DEF Erasing, PathsOf, Safe, Typed, AccountTypes
  <2>5. ASSUME NEW e \in Tasks, NEW w \in Users, task'[e].pc = "locked", task'[e].user = w
        PROVE  account'[w] = "due" /\ Erasing(w)' = {} /\ task'[e].paths = PathsOf(w)'
    <3>1. e # d /\ task'[e] = task[e]
      BY <2>2, <2>5
    <3>2. w # u
      BY <2>1, <2>5, <3>1
    <3>3. account[w] = "due" /\ Erasing(w) = {} /\ task[e].paths = PathsOf(w)
      BY <2>5, <3>1 DEF Safe, Locks
    <3> QED BY <2>4, <3>1, <3>2, <3>3
  <2>6. \A e, g \in Tasks : task'[e].pc = "locked" /\ task'[g].pc = "locked"
                               /\ task'[e].user = task'[g].user => e = g
    BY <2>2 DEF Safe, Locks
  <2>7. Locks'
    BY <2>5, <2>6 DEF Locks
  <2>8. Uploads' /\ RowsOwned'
    BY <1>2, <2>3, <2>4 DEF Safe, Kept, Uploads, RowsOwned, Exists
  <2>9. ASSUME NEW f \in stored' \ orphan' PROVE Accounted(f)'
    <3>1. f \in stored \ orphan /\ owner[f] \in Person
      BY <2>3 DEF Safe, Typed, FileTypes
    <3>2. Accounted(f)
      BY <3>1 DEF Safe, Kept
    <3>3. CASE f \in rows /\ owner[f] = u
      <4>1. f \in task'[d].paths
        BY <2>2, <3>3 DEF PathsOf
      <4> QED BY <2>2, <4>1 DEF Accounted
    <3>4. CASE f \in rows /\ owner[f] # u
      BY <2>3, <3>4 DEF Accounted
    <3>5. CASE owner[f] # Nobody /\ erased[owner[f]] = "immediately"
      <4>1. owner[f] \in Users /\ owner[f] # u
        BY <1>7, <2>1, <3>1, <3>5 DEF Person, Safe, Locks, Typed, AccountTypes
      <4> QED BY <1>2, <2>4, <3>5, <4>1 DEF Accounted
    <3>6. CASE owner[f] = Nobody \/ \E p \in Processes : call[p].op = "upload" /\ f \in call[p].files
      BY <1>2, <3>6 DEF Accounted
    <3>7. CASE \E e \in Tasks : task[e].pc = "files" /\ f \in task[e].paths
      BY <2>1, <2>2, <3>7 DEF Accounted
    <3> QED BY <3>2, <3>3, <3>4, <3>5, <3>6, <3>7 DEF Accounted
  <2> QED BY <2>7, <2>8, <2>9 DEF Kept
<1>8. CASE RemoveScheduled(d)
  <2>1. task'[d].pc # "locked" /\ \A e \in Tasks \ {d} : task'[e] = task[e]
    BY <1>1, <1>8 DEF RemoveScheduled, Run, NoRun, Work
  <2> QED BY <1>3, <1>8, <2>1 DEF RemoveScheduled, Remove, accountVars
<1>9. CASE TaskFails(d)
  <2>1. task'[d].pc # "locked" /\ \A e \in Tasks \ {d} : task'[e] = task[e]
    BY <1>1, <1>9 DEF TaskFails, Run, Again, Message, NoRun, Work
  <2> QED BY <1>3, <1>9, <2>1 DEF TaskFails, accountVars, fileVars
<1>10. CASE WorkerLost(d)
  <2>1. task'[d].pc # "locked" /\ \A e \in Tasks \ {d} : task'[e] = task[e]
    BY <1>1, <1>10 DEF WorkerLost, Run, Message, NoRun, Work
  <2> QED BY <1>3, <1>10, <2>1 DEF WorkerLost, accountVars
<1> QED BY <1>4, <1>5, <1>6, <1>7, <1>8, <1>9, <1>10 DEF TaskStep

\* Every step keeps files and rows together.
LEMMA StepSafe == Safe /\ [Next]_vars => Safe'
<1> SUFFICES ASSUME Safe, [Next]_vars PROVE Locks' /\ Kept'
  BY StepTyped DEF Safe
<1>1. ASSUME NEW u \in Users, GracePeriodEnds(u) PROVE Locks' /\ Kept'
  <2>1. /\ account[u] = "pending" /\ account' = [account EXCEPT ![u] = "due"]
        /\ UNCHANGED <<erased, owner, rows, stored, orphan, task, call>>
    BY <1>1 DEF GracePeriodEnds, fileVars
  <2>2. \A v \in Users : /\ v # u => account'[v] = account[v]
                         /\ account'[v] = "deleted" <=> account[v] = "deleted"
    BY <2>1 DEF Safe, Typed, AccountTypes
  <2>3. ~Locked(u)
    BY <2>1 DEF Safe, Locks, Locked
  <2>4. \A v \in Users : Erasing(v)' = Erasing(v) /\ PathsOf(v)' = PathsOf(v)
    BY <2>1 DEF Erasing, PathsOf
  <2>5. Locks'
    BY <2>1, <2>2, <2>3, <2>4, LocksFrame DEF Safe
  <2>6. Kept'
    BY <2>1, <2>2 DEF Safe, Kept, Uploads, RowsOwned, Exists, Accounted
  <2> QED BY <2>5, <2>6
<1>2. ASSUME NEW s \in Sessions, TokenExpires(s) PROVE Locks' /\ Kept'
  BY <1>2, SafeFrame DEF TokenExpires, accountVars, fileVars
<1>3. CASE UNCHANGED vars
  BY <1>3, SafeFrame DEF vars, accountVars, fileVars
<1>4. ASSUME NEW d \in Tasks, TaskStep(d) \/ TaskFails(d) \/ WorkerLost(d)
      PROVE  Locks' /\ Kept'
  <2>1. task[d].user \in Users
    BY <1>4 DEF TaskStep, LoadUser, EraseScheduled, RemoveScheduled, TaskFails, WorkerLost,
                Safe, Typed, ActorTypes
  <2> QED BY <1>4, <2>1, TaskKeepsSafe
<1>5. ASSUME NEW k \in Reapers, ReaperStep(k) \/ ReaperLost(k) PROVE Locks' /\ Kept'
  BY <1>5, SafeFrame DEF ReaperStep, ReadCandidates, Reap, ReapReports, ReaperLost,
                         accountVars, fileVars
<1>6. CASE AccountStep \/ SessionStep
  BY <1>1, <1>2, <1>6, RequestsKeepSafe, TaskKeepsSafe DEF AccountStep, SessionStep
<1>7. CASE Trouble
  BY <1>4, <1>5, <1>7, CallKeepsSafe DEF Trouble
<1> QED BY <1>3, <1>4, <1>5, <1>6, <1>7, CallKeepsSafe DEF Next

\* There is no file at the start.
LEMMA InitSafe == Init => Safe
<1> SUFFICES ASSUME Init PROVE Safe
  OBVIOUS
<1>1. /\ \A d \in Tasks : task[d].pc = "idle"
      /\ \A p \in Processes : call[p].op = "idle"
      /\ rows = {} /\ stored = {}
  BY DEF Init, NoRun, Work, Idle, Request
<1> QED BY <1>1, InitTyped DEF Safe, Locks, Kept, Uploads, RowsOwned

\* The schedule erases no account whose request is not due at that moment: the
\* lock of execute_gdpr_deletion closes the gap between the sweep and the task.
THEOREM CancellationHonoured == Spec => CancelHonoured
<1>1. Safe /\ [Next]_vars =>
        (\A u \in Users : erased[u] = "no" /\ erased'[u] = "scheduled" => account[u] = "due")
  <2> SUFFICES ASSUME Safe, [Next]_vars, NEW u \in Users,
                      erased[u] = "no", erased'[u] = "scheduled"
               PROVE  account[u] = "due"
    OBVIOUS
  <2>1. PICK d \in Tasks : EraseScheduled(d) /\ task[d].user = u
    <3>1. erased \in [Users -> {"no", "scheduled", "immediately"}]
      BY DEF Safe, Typed, AccountTypes
    <3>2. ASSUME NEW p \in Processes, EraseNowCommits(p) PROVE FALSE
      BY <3>1, <3>2 DEF EraseNowCommits, Erase
    <3>3. ASSUME NEW d \in Tasks, EraseScheduled(d) PROVE task[d].user = u
      BY <3>1, <3>3 DEF EraseScheduled, Erase
    <3> QED BY <3>2, <3>3 DEF Next, vars, AccountStep, SessionStep, CallStep, TaskStep,
            ReaperStep, Trouble, RequestDeletion, CancelDeletion, EraseNow, StoreFile,
            GracePeriodEnds, Sweep, StartImpersonation, EndImpersonation, TokenExpires,
            StoreRequest, RemoveFiles, InsertRow, CommitSession, CloseSession, ReportEnd,
            LoadUser, RemoveScheduled, ReadCandidates, Reap, ReapReports, EraseNowFails,
            ProcessKilled, TaskFails, WorkerLost, ReaperLost, accountVars
  <2> QED BY <2>1 DEF EraseScheduled, Safe, Locks
<1> QED BY <1>1, InitSafe, StepSafe, PTL DEF Spec, CancelHonoured

\* Once an account was erased on schedule, no file of it is left in the storage,
\* unless its removal failed, is under way, or an upload still has to undo it.
THEOREM FilesAreGone == Spec => []FilesGone
<1>1. Safe => FilesGone
  <2> SUFFICES ASSUME Safe, NEW f \in stored \ orphan, owner[f] # Nobody,
                      erased[owner[f]] = "scheduled"
               PROVE  \/ \E d \in Tasks : task[d].pc = "files" /\ f \in task[d].paths
                      \/ \E p \in Processes : call[p].op = "upload" /\ f \in call[p].files
    BY DEF FilesGone
  <2>1. f \notin rows
    BY DEF Safe, Kept, RowsOwned, Exists, Typed, AccountTypes
  <2> QED BY <2>1 DEF Safe, Kept, Accounted
<1> QED BY <1>1, InitSafe, StepSafe, PTL DEF Spec

-----------------------------------------------------------------------------
(***************************************************************************)
(* The checks and the unique index of impersonation_sessions               *)
(***************************************************************************)

Limits == calls \in 0..MaxCalls /\ faults \in 0..MaxFaults

\* Nobody impersonates himself, no session names a deleted user, and an
\* administrator has one active session.
Sound ==
    /\ \A s \in Sessions : sess[s].admin # Nobody => sess[s].admin # sess[s].target
    /\ \A s \in Sessions, u \in Users :
          sess[s].admin = u \/ sess[s].target = u => account[u] # "deleted"
    /\ \A s, x \in Sessions :
          /\ sess[s].state = "active" /\ sess[x].state = "active"
          /\ sess[s].admin = sess[x].admin /\ sess[s].admin # Nobody
          => s = x
    /\ \A p \in Processes : call[p].op = "start" => call[p].user # call[p].target

\* Steps that start no session, activate none and delete nobody keep Sound.
LEMMA SoundFrame ==
    ASSUME Typed, Sound,
           \A s \in Sessions : /\ sess'[s].admin = sess[s].admin
                               /\ sess'[s].target = sess[s].target
                               /\ sess'[s].state = "active" => sess[s].state = "active",
           \A u \in Users : account'[u] = "deleted" => account[u] = "deleted",
           \A p \in Processes : call'[p].op = "start" =>
              call'[p] = call[p] \/ call'[p].user # call'[p].target
    PROVE  Sound'
BY DEF Sound

\* Erasing an account takes it out of every session.
LEMMA EraseKeepsSound ==
    ASSUME Typed, Sound, NEW u \in Person, NEW how, Erase(u, how),
           \A p \in Processes : call'[p].op = "start" => call'[p] = call[p]
    PROVE  Sound'
<1>1. \A s \in Sessions :
         /\ sess'[s].state = sess[s].state
         /\ sess'[s].admin = IF sess[s].admin = u THEN Nobody ELSE sess[s].admin
         /\ sess'[s].target = IF sess[s].target = u THEN Nobody ELSE sess[s].target
  BY DEF Erase, Forgets, Session
<1>2. \A v \in Users : account'[v] = "deleted" => account[v] = "deleted" \/ v = u
  BY DEF Erase, Typed, AccountTypes
<1>3. Nobody \notin Users
  BY ConstantsAssumption
<1>4. \A s \in Sessions : sess'[s].admin # Nobody => sess'[s].admin # sess'[s].target
  BY <1>1 DEF Sound
<1>5. \A s \in Sessions, v \in Users :
         sess'[s].admin = v \/ sess'[s].target = v => account'[v] # "deleted"
  BY <1>1, <1>2, <1>3 DEF Sound
<1>6. \A s, x \in Sessions :
         /\ sess'[s].state = "active" /\ sess'[x].state = "active"
         /\ sess'[s].admin = sess'[x].admin /\ sess'[s].admin # Nobody
         => s = x
  BY <1>1 DEF Sound
<1>7. \A p \in Processes : call'[p].op = "start" => call'[p].user # call'[p].target
  BY DEF Sound
<1> QED BY <1>4, <1>5, <1>6, <1>7 DEF Sound

\* What becomes of the requests when one of them returns.
LEMMA ReturnKeepsStarts ==
    ASSUME Typed, NEW p \in Processes, Return(p)
    PROVE  \A q \in Processes : call'[q].op = "start" => call'[q] = call[q]
BY DEF Return, Idle, Request, Typed, ActorTypes, CallTypes

\* A call changes no lock of the task.
LEMMA CallKeepsSound ==
    ASSUME Typed, Sound, NEW p \in Processes,
           CallStep(p) \/ EraseNowFails(p) \/ ProcessKilled(p)
    PROVE  Sound'
<1>1. call[p] \in Calls
  BY DEF Typed, ActorTypes, CallTypes
<1>2. CASE Return(p) /\ UNCHANGED <<account, sess>>
  BY <1>2, ReturnKeepsStarts, SoundFrame
<1>3. CASE StoreRequest(p)
  <2>1. \A u \in Users : account'[u] = "deleted" => account[u] = "deleted"
    BY <1>3 DEF StoreRequest, Typed, AccountTypes
  <2> QED BY <1>3, <2>1, ReturnKeepsStarts, SoundFrame DEF StoreRequest, sessionVars
<1>4. CASE EraseNowCommits(p)
  <2>1. \A q \in Processes : call'[q].op = "start" => call'[q] = call[q]
    BY <1>4 DEF EraseNowCommits, Request, Typed, ActorTypes, CallTypes
  <2> QED BY <1>1, <1>4, <2>1, EraseKeepsSound DEF EraseNowCommits, Calls
<1>5. CASE RemoveFiles(p) \/ InsertRow(p) \/ ReportEnd(p) \/ EraseNowFails(p) \/ ProcessKilled(p)
  BY <1>2, <1>5 DEF RemoveFiles, InsertRow, ReportEnd, EraseNowFails, ProcessKilled,
                    accountVars, sessionVars
<1>6. CASE CommitSession(p)
  <2>1. CASE UNCHANGED sess
    BY <1>2, <1>6, <2>1 DEF CommitSession, accountVars
  <2>2. CASE /\ MayInsert(call[p].user, call[p].target)
             /\ \E s \in Sessions :
                   sess' = [sess EXCEPT ![s] = Session("active", call[p].user,
                                                       call[p].target, "none")]
    <3>1. PICK s \in Sessions : sess' = [sess EXCEPT ![s] =
                                   Session("active", call[p].user, call[p].target, "none")]
      BY <2>2
    <3>2. /\ sess'[s].state = "active" /\ sess'[s].admin = call[p].user
          /\ sess'[s].target = call[p].target
          /\ \A x \in Sessions \ {s} : sess'[x] = sess[x]
      BY <3>1 DEF Session, Typed, SessionTypes
    <3>3. /\ \A x \in Sessions : ~(sess[x].state = "active" /\ sess[x].admin = call[p].user)
          /\ account[call[p].user] # "deleted" /\ account[call[p].target] # "deleted"
      BY <2>2 DEF MayInsert, Active, Exists
    <3>4. call[p].user # call[p].target /\ UNCHANGED account
      BY <1>6 DEF CommitSession, Sound, accountVars
    <3>5. \A q \in Processes : call'[q].op = "start" => call'[q] = call[q]
      BY <1>6, ReturnKeepsStarts DEF CommitSession
    <3> QED BY <3>2, <3>3, <3>4, <3>5 DEF Sound
  <2> QED BY <1>6, <2>1, <2>2 DEF CommitSession
<1>7. CASE CloseSession(p)
  <2>1. \A s \in Sessions : /\ sess'[s].admin = sess[s].admin
                            /\ sess'[s].target = sess[s].target
                            /\ sess'[s].state = "active" => sess[s].state = "active"
    BY <1>7 DEF CloseSession, Close, Session
  <2>2. \A q \in Processes : call'[q].op = "start" => call'[q] = call[q]
    BY <1>7, ReturnKeepsStarts DEF CloseSession, Request, Typed, ActorTypes, CallTypes
  <2> QED BY <1>7, <2>1, <2>2, SoundFrame DEF CloseSession, accountVars
<1> QED BY <1>3, <1>4, <1>5, <1>6, <1>7 DEF CallStep

\* Every step keeps what the task knows under its row lock.
LEMMA StepSound == Typed /\ Sound /\ [Next]_vars => Sound'
<1> SUFFICES ASSUME Typed, Sound, [Next]_vars PROVE Sound'
  OBVIOUS
<1>1. ASSUME NEW p \in Processes,
             \/ \E u \in Users : RequestDeletion(p, u) \/ CancelDeletion(p, u) \/ EraseNow(p, u)
             \/ \E u \in Users, f \in Files : StoreFile(p, u, f)
             \/ \E u, t \in Users : StartImpersonation(p, u, t)
             \/ \E s \in Sessions : EndImpersonation(p, s)
      PROVE  Sound'
  <2>1. \A q \in Processes : call'[q].op = "start" =>
           call'[q] = call[q] \/ call'[q].user # call'[q].target
    BY <1>1 DEF RequestDeletion, CancelDeletion, EraseNow, StoreFile, StartImpersonation,
                EndImpersonation, Begin, Request, Typed, ActorTypes, CallTypes
  <2>2. UNCHANGED <<account, sess>>
    BY <1>1 DEF RequestDeletion, CancelDeletion, EraseNow, StoreFile, StartImpersonation,
                EndImpersonation, accountVars, sessionVars
  <2> QED BY <2>1, <2>2, SoundFrame
<1>2. ASSUME NEW u \in Users, GracePeriodEnds(u) PROVE Sound'
  <2>1. \A v \in Users : account'[v] = "deleted" => account[v] = "deleted"
    BY <1>2 DEF GracePeriodEnds, Typed, AccountTypes
  <2> QED BY <1>2, <2>1, SoundFrame DEF GracePeriodEnds, sessionVars
<1>3. ASSUME NEW s \in Sessions, TokenExpires(s) PROVE Sound'
  BY <1>3, SoundFrame DEF TokenExpires, accountVars
<1>4. CASE UNCHANGED vars
  BY <1>4, SoundFrame DEF vars, accountVars, sessionVars
<1>5. ASSUME NEW d \in Tasks, \/ TaskStep(d) \/ TaskFails(d) \/ WorkerLost(d)
                              \/ \E u \in Users : Sweep(d, u)
      PROVE  Sound'
  <2>1. CASE EraseScheduled(d)
    <3>1. task[d].user \in Person
      BY <2>1 DEF EraseScheduled, Typed, ActorTypes, Person
    <3> QED BY <2>1, <3>1, EraseKeepsSound DEF EraseScheduled
  <2>2. CASE ~EraseScheduled(d)
    BY <1>5, <2>2, SoundFrame DEF TaskStep, LoadUser, RemoveScheduled, TaskFails, WorkerLost,
                                  Sweep, accountVars, sessionVars
  <2> QED BY <2>1, <2>2
<1>6. ASSUME NEW k \in Reapers, ReaperStep(k) \/ ReaperLost(k) PROVE Sound'
  <2>1. CASE Reap(k)
    <3>1. \A s \in Sessions : /\ sess'[s].admin = sess[s].admin
                              /\ sess'[s].target = sess[s].target
                              /\ sess'[s].state = "active" => sess[s].state = "active"
      BY <2>1 DEF Reap, Close, Session
    <3> QED BY <2>1, <3>1, SoundFrame DEF Reap, accountVars
  <2>2. CASE ~Reap(k)
    BY <1>6, <2>2, SoundFrame DEF ReaperStep, ReadCandidates, ReapReports, ReaperLost,
                                  accountVars, sessionVars
  <2> QED BY <2>1, <2>2
<1>7. CASE AccountStep \/ SessionStep
  BY <1>1, <1>2, <1>3, <1>5, <1>7 DEF AccountStep, SessionStep
<1>8. CASE Trouble
  BY <1>5, <1>6, <1>8, CallKeepsSound DEF Trouble
<1> QED BY <1>4, <1>5, <1>6, <1>7, <1>8, CallKeepsSound DEF Next

\* A step counts a failure or leaves the count alone.
LEMMA FaultsLimited ==
    ASSUME Limits, Fault \/ UNCHANGED faults
    PROVE  faults' \in 0..MaxFaults
BY ConstantsAssumption DEF Limits, Fault

\* No step passes a limit.
LEMMA StepLimits == Typed /\ Limits /\ [Next]_vars => Limits'
<1> SUFFICES ASSUME Typed, Limits, [Next]_vars PROVE Limits'
  OBVIOUS
<1>1. UNCHANGED calls \/ \E p \in Processes : \E u, c : Begin(p, u, c)
  BY DEF Next, vars, AccountStep, SessionStep, CallStep, TaskStep, ReaperStep, Trouble,
         RequestDeletion, CancelDeletion, EraseNow, StoreFile, GracePeriodEnds, Sweep,
         StartImpersonation, EndImpersonation, TokenExpires, StoreRequest, RemoveFiles,
         InsertRow, CommitSession, CloseSession, ReportEnd, LoadUser, RemoveScheduled,
         ReadCandidates, Reap, ReapReports, EraseNowFails, EraseNowCommits, EraseScheduled,
         ProcessKilled, TaskFails, WorkerLost, ReaperLost, Return
<1>2. calls' \in 0..MaxCalls
  BY <1>1, ConstantsAssumption DEF Limits, Begin
<1>3. ASSUME NEW p \in Processes, ReportEnd(p) PROVE Fault \/ UNCHANGED faults
  <2>1. PICK s \in Sessions : call[p].sessions = {s}
    BY <1>3 DEF ReportEnd, Typed, ActorTypes, CallTypes
  <2> QED BY <1>3, <2>1 DEF ReportEnd, Report
<1>4. Fault \/ UNCHANGED faults
  BY <1>3 DEF Next, vars, AccountStep, SessionStep, CallStep, TaskStep, ReaperStep, Trouble,
         RequestDeletion, CancelDeletion, EraseNow, StoreFile, GracePeriodEnds, Sweep,
         StartImpersonation, EndImpersonation, TokenExpires, StoreRequest, RemoveFiles,
         InsertRow, CommitSession, CloseSession, LoadUser, RemoveScheduled, Remove, Report,
         ReadCandidates, Reap, ReapReports, EraseNowFails, EraseNowCommits, EraseScheduled,
         ProcessKilled, TaskFails, WorkerLost, ReaperLost
<1> QED BY <1>2, <1>4, FaultsLimited DEF Limits

\* The types, with what the checks and the unique index of impersonation_sessions
\* demand: an administrator never has two active sessions.
THEOREM TypesKept == Spec => []TypeOK
<1>1. Init => Typed /\ Locks /\ Kept /\ Sound /\ Limits
  <2> SUFFICES ASSUME Init PROVE Sound /\ Limits
    BY InitSafe DEF Safe
  <2>1. /\ \A s \in Sessions : sess[s].state = "none" /\ sess[s].admin = Nobody
                               /\ sess[s].target = Nobody
        /\ \A p \in Processes : call[p].op = "idle"
        /\ calls = 0 /\ faults = 0
    BY DEF Init, NoSession, Session, Idle, Request
  <2> QED BY <2>1, ConstantsAssumption DEF Sound, Limits
<1>2. Safe /\ Sound /\ Limits /\ [Next]_vars => (Safe /\ Sound /\ Limits)'
  BY StepSafe, StepSound, StepLimits DEF Safe
<1>3. Safe /\ Sound /\ Limits => TypeOK
  <2> SUFFICES ASSUME Safe, Sound, Limits PROVE TypeOK
    OBVIOUS
  <2>1. \A f \in rows : owner[f] # Nobody
    BY ConstantsAssumption DEF Safe, Kept, RowsOwned, Exists
  <2>2. \A s \in Sessions : \A u \in {sess[s].admin, sess[s].target} \ {Nobody} : Exists(u)
    BY DEF Sound, Exists, Safe, Typed, SessionTypes, Rows, Person
  <2> QED BY <2>1, <2>2 DEF TypeOK, Sound, Limits, Safe, Typed, AccountTypes, FileTypes,
                            SessionTypes, ActorTypes, CallTypes
<1> QED BY <1>1, <1>2, <1>3, PTL DEF Spec, Safe

=============================================================================
