--------------------------- MODULE ProgressStream ---------------------------
(***************************************************************************)
(* The progress stream of one task: backend/api/v1/websocket.py.           *)
(*                                                                         *)
(* A stream asks Celery once a second how the task stands and tells its    *)
(* client, until it can tell how the task ended.  Celery forgets (an entry *)
(* expires and reads as PENDING) and errs (a worker lost after its commit  *)
(* ends as FAILURE), so the row of the generation job is to have the last  *)
(* word.  Between the questions to Celery, of the state and of the details,*)
(* and the look at the row the task goes on.                               *)
(* The registry holds one stream per task in one process.                  *)
(***************************************************************************)
EXTENDS Integers

CONSTANTS
    Streams,
    NoStream,
    PendingLimit,   \* PENDING_TIMEOUT_SECONDS / POLL_INTERVAL_SECONDS
    RedisFailures   \* max_redis_failures

ASSUME StreamAssumption == {PendingLimit, RedisFailures} \subseteq Nat \ {0}

VARIABLES
    row,         \* the generation job's status; "none" for a document task
    celery,      \* what Celery says of the task
    completed,   \* the task has done its work
    registered,  \* manager.active_connections[task_id]
    stream

streamVars == <<row, celery, completed, registered, stream>>

-----------------------------------------------------------------------------
Ended == {"FAILURE", "REVOKED"}
Polling == {"poll", "info", "report"}

New == [at |-> "off", closed |-> FALSE, pending |-> 0, failures |-> 0,
        read |-> "PENDING", late |-> FALSE, torn |-> FALSE, said |-> "nothing",
        why |-> "nothing"]

StreamInit ==
    /\ row \in {"RUNNING", "none"}
    /\ celery = "PENDING"
    /\ completed = FALSE
    /\ registered = NoStream
    /\ stream = [s \in Streams |-> New]

Task == <<row, celery, completed>>

\* ConnectionManager.connect: whoever is registered is closed, then the new
\* socket is accepted; both wait for the network.
CloseExisting(s) ==
    /\ stream[s].at = "off"
    /\ stream' = [t \in Streams |->
          IF t = s THEN [stream[s] EXCEPT !.at = "accept"]
          ELSE IF t = registered THEN [stream[t] EXCEPT !.closed = TRUE]
          ELSE stream[t]]
    /\ UNCHANGED <<Task, registered>>

\* A client that is gone by now ends the stream before its finally.
Accept(s) ==
    /\ stream[s].at = "accept"
    /\ \/ stream' = [stream EXCEPT ![s].at = "handshake"] /\ registered' = s
       \/ stream' = [stream EXCEPT ![s].at = "ended"] /\ UNCHANGED registered
    /\ UNCHANGED Task

\* ConnectionManager.disconnect, in the finally of every stream.  why: what made
\* the stream tell an end of its own: the task's end, a wait too long, Redis or
\* the row not to be had, an exception in the stream.
End(s, said, why) ==
    /\ stream' = [stream EXCEPT ![s] = [New EXCEPT !.at = "ended", !.late = stream[s].late,
                                           !.said = said, !.why = why]]
    /\ registered' = NoStream

Continue(s, new) ==
    /\ stream' = [stream EXCEPT ![s] = new]
    /\ UNCHANGED registered

\* A message to a socket that is closed ends the stream with nothing said: the
\* handler of the exception can send no other.
Quit(s) == End(s, "nothing", "nothing")
Send(s, said, why) == IF stream[s].closed THEN Quit(s) ELSE End(s, said, why)

Authenticate(s) ==
    /\ stream[s].at = "handshake"
    /\ \/ ~stream[s].closed /\ Continue(s, [stream[s] EXCEPT !.at = "poll"])
       \/ Quit(s)
    /\ UNCHANGED Task

\* The client leaves; the loop learns of it when it sends.
Leave(s) ==
    /\ stream[s].at \in Polling /\ ~stream[s].closed
    /\ Continue(s, [stream[s] EXCEPT !.closed = TRUE])
    /\ UNCHANGED Task

-----------------------------------------------------------------------------
(***************************************************************************)
(* The polling loop                                                        *)
(***************************************************************************)
\* Redis cannot be reached, the third time in a row or before.
Unreachable(s) ==
    IF stream[s].failures + 1 < RedisFailures
    THEN Continue(s, [stream[s] EXCEPT !.at = "poll", !.failures = @ + 1])
    ELSE Send(s, "FAILURE", "redis")

\* _get_task_result reads the state first.  late: the row already said SUCCESS.
Poll(s) ==
    /\ stream[s].at = "poll"
    /\ \/ Continue(s, [stream[s] EXCEPT !.at = "info", !.read = celery,
                                        !.late = (row = "SUCCESS")])
       \/ Unreachable(s)
    /\ UNCHANGED Task

\* Then the details, kept from the first read only if the task had ended.  They
\* may be those of a later state; an exception is none of a task in progress.
Raised == Ended \cup {"RETRY"}
ReadInfo(s) ==
    /\ stream[s].at = "info"
    /\ \/ Continue(s, [stream[s] EXCEPT !.at = "report", !.failures = 0,
                     !.torn = (stream[s].read = "PROGRESS" /\ celery \in Raised)])
       \/ stream[s].read \notin Ended \cup {"SUCCESS"} /\ Unreachable(s)
    /\ UNCHANGED Task

ReportProgress(s) ==
    /\ stream[s].at = "report" /\ stream[s].read \in {"STARTED", "PROGRESS", "RETRY"}
    /\ ~stream[s].torn
    /\ IF stream[s].closed THEN Quit(s)
       ELSE Continue(s, [stream[s] EXCEPT !.at = "poll", !.pending = 0])
    /\ UNCHANGED Task

\* Any exception of the loop is told as FAILURE; the row is not asked.
BreakDown(s) ==
    /\ stream[s].at = "report" /\ stream[s].torn
    /\ Send(s, "FAILURE", "stream")
    /\ UNCHANGED Task

ReportSuccess(s) ==
    /\ stream[s].at = "report" /\ stream[s].read = "SUCCESS"
    /\ Send(s, "SUCCESS", "task")
    /\ UNCHANGED Task

Wait(s) ==
    /\ stream[s].at = "report" /\ stream[s].read = "PENDING"
    /\ stream[s].pending + 1 < PendingLimit
    /\ Continue(s, [stream[s] EXCEPT !.at = "poll", !.pending = @ + 1])
    /\ UNCHANGED Task

\* Failure and timeout ask the row first (_send_stored_success).
AsksRowMutant(read) == read \in Ended
AsksRow(read) == read \in Ended \cup {"PENDING"}

\* Whatever the lookup of the row raises: what Celery said is told, or FAILURE.
ReportEnd(s) ==
    /\ stream[s].at = "report"
    /\ \/ stream[s].read \in Ended
       \/ stream[s].read = "PENDING" /\ stream[s].pending + 1 >= PendingLimit
    /\ LET verdict == IF stream[s].read = "PENDING" THEN "FAILURE" ELSE stream[s].read
           why == IF stream[s].read = "PENDING" THEN "timeout" ELSE "task"
       IN  \/ Send(s, IF AsksRow(stream[s].read) /\ row = "SUCCESS"
                      THEN "SUCCESS" ELSE verdict, why)
           \/ /\ AsksRow(stream[s].read)
              /\ Send(s, verdict, "row") \/ Send(s, "FAILURE", "row")
    /\ UNCHANGED Task

-----------------------------------------------------------------------------
(***************************************************************************)
(* The task, from outside                                                  *)
(***************************************************************************)
Celery(said, from) ==
    /\ celery \in from /\ celery' = said
    /\ UNCHANGED <<row, completed, registered, stream>>

Live == {"STARTED", "PROGRESS", "RETRY"}

Start == Celery("STARTED", {"PENDING", "RETRY"})
Progress == Celery("PROGRESS", {"STARTED"})
Retry == ~completed /\ Celery("RETRY", {"STARTED", "PROGRESS"})
Revoke == Celery("REVOKED", {"PENDING", "RETRY"} \cup Live)
Forget == Celery("PENDING", Ended \cup {"SUCCESS"})
Lost == Celery("FAILURE", Live)
Redeliver == Celery("STARTED", Ended)
Succeed == completed /\ Celery("SUCCESS", {"STARTED", "PROGRESS"})

Complete ==
    /\ celery \in {"STARTED", "PROGRESS"} /\ ~completed
    /\ completed' = TRUE
    /\ row' = IF row = "none" THEN row ELSE "SUCCESS"
    /\ UNCHANGED <<celery, registered, stream>>

StreamNext ==
    \/ \E s \in Streams :
          \/ CloseExisting(s) \/ Accept(s) \/ Authenticate(s) \/ Leave(s) \/ Poll(s)
          \/ ReadInfo(s) \/ BreakDown(s) \/ ReportProgress(s) \/ ReportSuccess(s) \/ Wait(s) \/ ReportEnd(s)
    \/ Start \/ Progress \/ Retry \/ Revoke \/ Forget \/ Lost \/ Redeliver \/ Succeed
    \/ Complete

StreamSpec == StreamInit /\ [][StreamNext]_streamVars

-----------------------------------------------------------------------------
\* Whatever Celery lost, forgot or repeated: a stream that told its client
\* that a generation job failed or never started was not asking about one
\* whose questions were saved, unless the row or Redis could not be reached or
\* the stream itself broke; SUCCESS is told of work that was done; and the
\* registered stream runs.
StreamTellsTruth ==
    /\ \A s \in DOMAIN stream :
          /\ stream[s].said \in Ended /\ stream[s].why \in {"task", "timeout"} =>
                ~stream[s].late
          /\ stream[s].said = "SUCCESS" => completed
    /\ registered # NoStream => stream[registered].at \in Polling \cup {"handshake"}

\* What is not so: that SUCCESS in the database always "wins over Celery's FAILURE"
\* (a failure between the reads of state and details breaks the stream, and the
\* row is not asked); one open stream per task ("already exists: close it"); and
\* that a task that runs has one of its open streams registered.  TLC refutes
\* all three (README, section 4).
SavedWins == \A s \in Streams :
    stream[s].said \in Ended /\ stream[s].why \notin {"redis", "row"} => ~stream[s].late
Watched(s) == stream[s].at \in Polling /\ ~stream[s].closed
OneStreamPerTask == \A s, t \in Streams : Watched(s) /\ Watched(t) => s = t
WatchedIsRegistered == (\E s \in Streams : Watched(s)) => registered # NoStream

=============================================================================
