------------------------ MODULE GenerationJobProofs ------------------------
(***************************************************************************)
(* Theorems about GenerationJob for every set of jobs and runs, every      *)
(* retry and redelivery limit and any number of faults.                    *)
(***************************************************************************)
EXTENDS GenerationJob, TLAPS

-----------------------------------------------------------------------------
(***************************************************************************)
(* The inductive invariant                                                 *)
(***************************************************************************)

\* Nothing can be gained for the job any more: its questions were stored, or
\* its row is gone.
Settled(j) == saved[j] = 1 \/ status[j] = "DELETED"

\* The questions agree with the status column.
RowInv(j) ==
    /\ status[j] \in {"NONE", "PENDING"} => saved[j] = 0 /\ ~linked[j]
    /\ status[j] = "SUCCESS" => saved[j] = 1
    /\ status[j] = "DELETED" \/ saved[j] <= 1
    /\ linked[j] => saved[j] = 1 /\ status[j] # "DELETED"

\* A job that is still open has redeliveries left.
CountInv(j) ==
    /\ status[j] = "NONE" => redeliveryCount[j] = 0
    /\ status[j] = "PENDING" => redeliveryCount[j] < MaxRedeliveries

\* Whoever carries a SUCCESS to the row carries a true one.
ReportInv(j) == "SUCCESS" \in {backend[j], watchdog[j], mirror[j]} => Settled(j)

\* The request holds no row before its commit and one after it; a job that
\* was retried is over and has no questions.
RequestInv(j) ==
    /\ api[j] = "checked" => status[j] = "NONE"
    /\ api[j] \in {"committed", "undo"} => status[j] # "NONE"
    /\ parent[j] # NoJob => /\ status[parent[j]] \notin {"NONE", "PENDING"}
                            /\ ~linked[parent[j]]

\* What a run knows of its job stays true while other actors move.
RunInv(r) ==
    run[r].pc # "idle" =>
        /\ run[r].job \in Jobs
        /\ status[run[r].job] # "NONE"
        /\ run[r].late => status[run[r].job] # "PENDING"
        /\ run[r].pc \in {"repair", "report", "return"} => Settled(run[r].job)
        /\ run[r].pc = "count" => run[r].seen < MaxRedeliveries

JobsInv == \A j \in Jobs : RowInv(j) /\ CountInv(j) /\ ReportInv(j) /\ RequestInv(j)
RunsInv == \A r \in Runs : RunInv(r)

IInv == TypeOK /\ JobsInv /\ RunsInv

-----------------------------------------------------------------------------
(***************************************************************************)
(* Slots                                                                   *)
(***************************************************************************)

\* A free slot and a message are slots.
LEMMA EmptySlotType == EmptySlot \in Slot
BY ConstantsAssumption DEF EmptySlot, Slot, PCs

LEMMA MessageType ==
    ASSUME NEW j \in Jobs, NEW n \in 0..MaxRetries, NEW again \in BOOLEAN
    PROVE  Message(j, n, again) \in Slot
BY ConstantsAssumption DEF Message, Slot, PCs

\* A busy slot holds a job's message.
LEMMA BusySlot ==
    ASSUME IInv, NEW r \in Runs, run[r].pc # "idle"
    PROVE  /\ run[r] \in Slot
           /\ run[r].job \in Jobs
           /\ run[r].retries \in 0..MaxRetries
BY DEF IInv, TypeOK, RunTypeOK, RunsInv, RunInv, Slot

-----------------------------------------------------------------------------
(***************************************************************************)
(* Every step preserves the invariant: its types, what it says of the jobs *)
(* and what it says of the runs.                                           *)
(***************************************************************************)

\* No step leaves the type of the slots.
LEMMA RunTypeStep ==
    ASSUME IInv, [Next]_vars
    PROVE  RunTypeOK'
<1> USE ConstantsAssumption
<1> USE DEF RunTypeOK, RetriesLeft, rowVars, questionVars, requestVars,
       observerVars
<1> RunTypeOK /\ EmptySlot \in Slot
  BY EmptySlotType DEF IInv, TypeOK
<1>free. \A r \in Runs : Free(r) => RunTypeOK'
  BY DEF Free
<1>goto. \A r \in Runs, p \in PCs : Goto(r, p) => RunTypeOK'
  <2>1. \A r \in Runs, p \in PCs : [run[r] EXCEPT !.pc = p] \in Slot
    BY DEF Slot
  <2> QED
    BY <2>1 DEF Goto
<1>1. ASSUME NEW j \in Jobs, Generate(j)
      PROVE  RunTypeOK'
  BY <1>1 DEF Generate
<1>2. ASSUME NEW j \in Jobs, RetryRefused(j)
      PROVE  RunTypeOK'
  BY <1>2 DEF RetryRefused
<1>3. ASSUME NEW j \in Jobs, NEW k \in Jobs, RetryAccepted(j, k)
      PROVE  RunTypeOK'
  BY <1>3 DEF RetryAccepted
<1>4. ASSUME NEW j \in Jobs, RetryCommit(j)
      PROVE  RunTypeOK'
  BY <1>4 DEF RetryCommit
<1>5. ASSUME NEW j \in Jobs, NEW r \in Runs, Publish(j, r)
      PROVE  RunTypeOK'
  <2>1. 0 \in 0..MaxRetries
    OBVIOUS
  <2>2. Message(j, 0, FALSE) \in Slot
    BY <2>1, MessageType
  <2> QED
    BY <1>5, <2>2 DEF Fault, Publish
<1>6. ASSUME NEW j \in Jobs, PublishFails(j)
      PROVE  RunTypeOK'
  <2>1. 0 \in 0..MaxRetries
    OBVIOUS
  <2>2. Message(j, 0, FALSE) \in Slot
    BY <2>1, MessageType
  <2> QED
    BY <1>6, <2>2 DEF Fault, PublishFails
<1>7. ASSUME NEW j \in Jobs, UndoJob(j)
      PROVE  RunTypeOK'
  BY <1>7 DEF UndoJob
<1>8. ASSUME NEW j \in Jobs, RequestDies(j)
      PROVE  RunTypeOK'
  BY <1>8 DEF RequestDies
<1>9. ASSUME NEW j \in Jobs, DeleteQuestions(j)
      PROVE  RunTypeOK'
  BY <1>9 DEF DeleteQuestions
<1>10. ASSUME NEW j \in Jobs, Expire(j)
      PROVE  RunTypeOK'
  BY <1>10 DEF Expire
<1>11. ASSUME NEW j \in Jobs, WatchdogLoad(j)
      PROVE  RunTypeOK'
  BY <1>11 DEF WatchdogLoad
<1>12. ASSUME NEW j \in Jobs, WatchdogRead(j)
      PROVE  RunTypeOK'
  BY <1>12 DEF WatchdogRead
<1>13. ASSUME NEW j \in Jobs, WatchdogMirror(j)
      PROVE  RunTypeOK'
  BY <1>13 DEF WatchdogMirror
<1>14. ASSUME NEW j \in Jobs, WatchdogGivesUp(j)
      PROVE  RunTypeOK'
  BY <1>14 DEF WatchdogGivesUp
<1>15. ASSUME NEW j \in Jobs, WatchdogNotifies(j)
      PROVE  RunTypeOK'
  BY <1>15 DEF WatchdogNotifies
<1>16. ASSUME NEW j \in Jobs, ActiveTasksRead(j)
      PROVE  RunTypeOK'
  BY <1>16 DEF ActiveTasksRead
<1>17. ASSUME NEW j \in Jobs, ActiveTasksSync(j)
      PROVE  RunTypeOK'
  BY <1>17 DEF ActiveTasksSync
<1>18. ASSUME NEW r \in Runs, RejectWithoutRag(r)
      PROVE  RunTypeOK'
  BY <1>18, <1>free DEF RejectWithoutRag
<1>19. ASSUME NEW r \in Runs, Deliver(r)
      PROVE  RunTypeOK'
  <2>1. [run[r] EXCEPT !.pc = "check", !.held = TRUE] \in Slot
    BY DEF Slot, PCs, Executing, InTask
  <2>2. run' = [run EXCEPT ![r] = [run[r] EXCEPT !.pc = "check", !.held = TRUE]]
    BY <1>19, Zenon DEF Deliver
  <2> QED
    BY <2>1, <2>2
<1>20. ASSUME NEW r \in Runs, DeliverRevoked(r)
      PROVE  RunTypeOK'
  BY <1>20, <1>free DEF DeliverRevoked
<1>21. ASSUME NEW r \in Runs, WorkerLost(r)
      PROVE  RunTypeOK'
  <2>1. run[r].pc # "idle"
    BY <1>21 DEF WorkerLost, Executing, InTask
  <2>2. Message(run[r].job, run[r].retries, TRUE) \in Slot
    BY <2>1, BusySlot, MessageType
  <2> QED
    BY <1>21, <2>2 DEF WorkerLost
<1>22. ASSUME NEW r \in Runs, NEW s \in Runs, ChannelLost(r, s)
      PROVE  RunTypeOK'
  <2>1. run[r].pc # "idle"
    BY <1>22 DEF ChannelLost, Executing, InTask
  <2>2. Message(run[r].job, run[r].retries, TRUE) \in Slot
    BY <2>1, BusySlot, MessageType
  <2>3. [run[r] EXCEPT !.held = FALSE] \in Slot
    BY DEF Slot
  <2> QED
    BY <1>22, <2>2, <2>3 DEF ChannelLost
<1>23. ASSUME NEW r \in Runs, TimeLimit(r)
      PROVE  RunTypeOK'
  BY <1>23, <1>free DEF TimeLimit
<1>24. ASSUME NEW r \in Runs, CheckJob(r)
      PROVE  RunTypeOK'
  <2>1. run[r].pc # "idle" /\ redeliveryCount[run[r].job] \in 0..MaxRedeliveries
    BY <1>24, BusySlot DEF CheckJob, IInv, TypeOK, JobTypeOK
  <2>2. [run[r] EXCEPT !.pc = "count", !.seen = redeliveryCount[run[r].job]] \in Slot
    BY <2>1 DEF Slot, PCs, Executing, InTask
  <2>3. CASE \E p \in PCs : Goto(r, p)
    BY <2>3, <1>goto
  <2>4. CASE run' = [run EXCEPT ![r] = [@ EXCEPT !.pc = "count",
                         !.seen = redeliveryCount[run[r].job]]]
    BY <2>2, <2>4
  <2> QED
    BY <1>24, <2>3, <2>4 DEF CheckJob, PCs, Executing, InTask
<1>25. ASSUME NEW r \in Runs, RepairJob(r)
      PROVE  RunTypeOK'
  BY <1>25, <1>goto, <1>free DEF RepairJob, PCs, Executing, InTask
<1>26. ASSUME NEW r \in Runs, CountRedelivery(r)
      PROVE  RunTypeOK'
  BY <1>26, <1>goto, <1>free DEF CountRedelivery, PCs, Executing, InTask
<1>27. ASSUME NEW r \in Runs, RejectGeneration(r)
      PROVE  RunTypeOK'
  BY <1>27, <1>goto, <1>free DEF RejectGeneration, PCs, Executing, InTask
<1>28. ASSUME NEW r \in Runs, DropMessage(r)
      PROVE  RunTypeOK'
  BY <1>28, <1>free DEF DropMessage
<1>29. ASSUME NEW r \in Runs, SaveGeneration(r)
      PROVE  RunTypeOK'
  BY <1>29, <1>goto, <1>free DEF SaveGeneration, Persist, PCs, Executing, InTask
<1>30. ASSUME NEW r \in Runs, SaveUnlinked(r)
      PROVE  RunTypeOK'
  BY <1>30, <1>goto, <1>free DEF SaveUnlinked, Persist, PCs, Executing, InTask
<1>31. ASSUME NEW r \in Runs, DiscardGeneration(r)
      PROVE  RunTypeOK'
  <2>1. [run[r] EXCEPT !.pc = "check", !.late = TRUE] \in Slot
    BY DEF Slot, PCs, Executing, InTask
  <2>2. run' = [run EXCEPT ![r] = [run[r] EXCEPT !.pc = "check", !.late = TRUE]]
    BY <1>31, Zenon DEF DiscardGeneration
  <2> QED
    BY <2>1, <2>2
<1>32. ASSUME NEW r \in Runs, RunFails(r)
      PROVE  RunTypeOK'
  BY <1>32, <1>goto, <1>free DEF RunFails, PCs, Executing, InTask
<1>33. ASSUME NEW r \in Runs, RunFailsForGood(r)
      PROVE  RunTypeOK'
  BY <1>33, <1>goto, <1>free DEF RunFailsForGood, PCs, Executing, InTask
<1>34. ASSUME NEW r \in Runs, FailForGood(r)
      PROVE  RunTypeOK'
  BY <1>34, <1>goto, <1>free DEF FailForGood, PCs, Executing, InTask
<1>35. ASSUME NEW r \in Runs, FailOrRetry(r)
      PROVE  RunTypeOK'
  BY <1>35, <1>goto, <1>free DEF FailOrRetry, PCs, Executing, InTask
<1>36. ASSUME NEW r \in Runs, NEW s \in Runs, Autoretry(r, s)
      PROVE  RunTypeOK'
  <2>1. run[r].pc # "idle"
    BY <1>36 DEF Autoretry
  <2>2. run[r].job \in Jobs /\ run[r].retries + 1 \in 0..MaxRetries
    BY <1>36, <2>1, BusySlot DEF Autoretry
  <2>3. Message(run[r].job, run[r].retries + 1, FALSE) \in Slot
    BY <2>2, MessageType
  <2>4. [run[r] EXCEPT !.pc = "ack"] \in Slot
    BY DEF Slot, PCs, Executing, InTask
  <2> QED
    BY <1>36, <2>3, <2>4 DEF Autoretry
<1>37. ASSUME NEW r \in Runs, ReportFailure(r)
      PROVE  RunTypeOK'
  BY <1>37, <1>goto, <1>free DEF ReportFailure, PCs, Executing, InTask
<1>38. ASSUME NEW r \in Runs, ReportSuccess(r)
      PROVE  RunTypeOK'
  BY <1>38, <1>goto, <1>free DEF ReportSuccess, PCs, Executing, InTask
<1>39. ASSUME NEW r \in Runs, Acknowledge(r)
      PROVE  RunTypeOK'
  BY <1>39, <1>free DEF Acknowledge
<1>40. CASE UNCHANGED vars
  BY <1>40 DEF vars
<1> QED
  BY <1>1, <1>2, <1>3, <1>4, <1>5, <1>6, <1>7, <1>8, <1>9, <1>10,
     <1>11, <1>12, <1>13, <1>14, <1>15, <1>16, <1>17, <1>18, <1>19, <1>20,
     <1>21, <1>22, <1>23, <1>24, <1>25, <1>26, <1>27, <1>28, <1>29, <1>30,
     <1>31, <1>32, <1>33, <1>34, <1>35, <1>36, <1>37, <1>38, <1>39, <1>40 DEF
     Next, JobStep, RunStep, ApiStep, BrokerStep, TaskStep, WatchdogStep

\* No step leaves the types of the jobs' state: a redelivery is counted below the limit.
LEMMA JobTypeStep ==
    ASSUME IInv, [Next]_vars
    PROVE  JobTypeOK'
<1> USE ConstantsAssumption
<1> USE DEF JobTypeOK, Verdict, RowStates, BackendStates, Absent, Terminal,
       Fault, StoreResult, StatusAfter, TryUpdateStatus, rowVars,
       questionVars, requestVars, observerVars
<1> JobTypeOK
  BY DEF IInv, TypeOK
<1>1. ASSUME NEW j \in Jobs, Generate(j)
      PROVE  JobTypeOK'
  BY <1>1 DEF Generate
<1>2. ASSUME NEW j \in Jobs, RetryRefused(j)
      PROVE  JobTypeOK'
  BY <1>2 DEF RetryRefused
<1>3. ASSUME NEW j \in Jobs, NEW k \in Jobs, RetryAccepted(j, k)
      PROVE  JobTypeOK'
  BY <1>3 DEF RetryAccepted
<1>4. ASSUME NEW j \in Jobs, RetryCommit(j)
      PROVE  JobTypeOK'
  BY <1>4 DEF RetryCommit
<1>5. ASSUME NEW j \in Jobs, NEW r \in Runs, Publish(j, r)
      PROVE  JobTypeOK'
  BY <1>5 DEF Publish
<1>6. ASSUME NEW j \in Jobs, PublishFails(j)
      PROVE  JobTypeOK'
  BY <1>6 DEF PublishFails
<1>7. ASSUME NEW j \in Jobs, UndoJob(j)
      PROVE  JobTypeOK'
  BY <1>7 DEF UndoJob
<1>8. ASSUME NEW j \in Jobs, RequestDies(j)
      PROVE  JobTypeOK'
  BY <1>8 DEF RequestDies
<1>9. ASSUME NEW j \in Jobs, DeleteQuestions(j)
      PROVE  JobTypeOK'
  BY <1>9 DEF DeleteQuestions
<1>10. ASSUME NEW j \in Jobs, Expire(j)
      PROVE  JobTypeOK'
  BY <1>10 DEF Expire
<1>11. ASSUME NEW j \in Jobs, WatchdogLoad(j)
      PROVE  JobTypeOK'
  BY <1>11 DEF WatchdogLoad
<1>12. ASSUME NEW j \in Jobs, WatchdogRead(j)
      PROVE  JobTypeOK'
  BY <1>12 DEF WatchdogRead
<1>13. ASSUME NEW j \in Jobs, WatchdogMirror(j)
      PROVE  JobTypeOK'
  BY <1>13 DEF WatchdogMirror
<1>14. ASSUME NEW j \in Jobs, WatchdogGivesUp(j)
      PROVE  JobTypeOK'
  BY <1>14 DEF WatchdogGivesUp
<1>15. ASSUME NEW j \in Jobs, WatchdogNotifies(j)
      PROVE  JobTypeOK'
  BY <1>15 DEF WatchdogNotifies
<1>16. ASSUME NEW j \in Jobs, ActiveTasksRead(j)
      PROVE  JobTypeOK'
  BY <1>16 DEF ActiveTasksRead
<1>17. ASSUME NEW j \in Jobs, ActiveTasksSync(j)
      PROVE  JobTypeOK'
  BY <1>17 DEF ActiveTasksSync
<1>18. ASSUME NEW r \in Runs, RejectWithoutRag(r)
      PROVE  JobTypeOK'
  BY <1>18 DEF RejectWithoutRag
<1>19. ASSUME NEW r \in Runs, Deliver(r)
      PROVE  JobTypeOK'
  BY <1>19 DEF Deliver
<1>20. ASSUME NEW r \in Runs, DeliverRevoked(r)
      PROVE  JobTypeOK'
  <2>1. run[r].job \in Jobs
    BY <1>20, BusySlot DEF DeliverRevoked, InTask
  <2> QED
    BY <1>20, <2>1 DEF DeliverRevoked
<1>21. ASSUME NEW r \in Runs, WorkerLost(r)
      PROVE  JobTypeOK'
  BY <1>21 DEF WorkerLost
<1>22. ASSUME NEW r \in Runs, NEW s \in Runs, ChannelLost(r, s)
      PROVE  JobTypeOK'
  BY <1>22 DEF ChannelLost
<1>23. ASSUME NEW r \in Runs, TimeLimit(r)
      PROVE  JobTypeOK'
  <2>1. run[r].job \in Jobs
    BY <1>23, BusySlot DEF TimeLimit, InTask
  <2> QED
    BY <1>23, <2>1 DEF TimeLimit
<1>24. ASSUME NEW r \in Runs, CheckJob(r)
      PROVE  JobTypeOK'
  BY <1>24 DEF CheckJob
<1>25. ASSUME NEW r \in Runs, RepairJob(r)
      PROVE  JobTypeOK'
  BY <1>25 DEF RepairJob
<1>26. ASSUME NEW r \in Runs, CountRedelivery(r)
      PROVE  JobTypeOK'
  <2>1. run[r].seen \in Nat /\ run[r].seen < MaxRedeliveries /\ run[r].job \in Jobs
    BY <1>26, BusySlot DEF CountRedelivery, IInv, RunsInv, RunInv, Slot
  <2> QED
    BY <1>26, <2>1 DEF CountRedelivery
<1>27. ASSUME NEW r \in Runs, RejectGeneration(r)
      PROVE  JobTypeOK'
  BY <1>27 DEF RejectGeneration
<1>28. ASSUME NEW r \in Runs, DropMessage(r)
      PROVE  JobTypeOK'
  BY <1>28 DEF DropMessage
<1>29. ASSUME NEW r \in Runs, SaveGeneration(r)
      PROVE  JobTypeOK'
  <2>1. run[r].job \in Jobs
    BY <1>29, BusySlot DEF SaveGeneration, Persist, InTask
  <2> QED
    BY <1>29, <2>1 DEF SaveGeneration, Persist
<1>30. ASSUME NEW r \in Runs, SaveUnlinked(r)
      PROVE  JobTypeOK'
  <2>1. run[r].job \in Jobs
    BY <1>30, BusySlot DEF SaveUnlinked, Persist, InTask
  <2> QED
    BY <1>30, <2>1 DEF SaveUnlinked, Persist
<1>31. ASSUME NEW r \in Runs, DiscardGeneration(r)
      PROVE  JobTypeOK'
  BY <1>31 DEF DiscardGeneration
<1>32. ASSUME NEW r \in Runs, RunFails(r)
      PROVE  JobTypeOK'
  BY <1>32 DEF RunFails
<1>33. ASSUME NEW r \in Runs, RunFailsForGood(r)
      PROVE  JobTypeOK'
  BY <1>33 DEF RunFailsForGood
<1>34. ASSUME NEW r \in Runs, FailForGood(r)
      PROVE  JobTypeOK'
  BY <1>34 DEF FailForGood
<1>35. ASSUME NEW r \in Runs, FailOrRetry(r)
      PROVE  JobTypeOK'
  BY <1>35 DEF FailOrRetry
<1>36. ASSUME NEW r \in Runs, NEW s \in Runs, Autoretry(r, s)
      PROVE  JobTypeOK'
  BY <1>36 DEF Autoretry
<1>37. ASSUME NEW r \in Runs, ReportFailure(r)
      PROVE  JobTypeOK'
  BY <1>37 DEF ReportFailure
<1>38. ASSUME NEW r \in Runs, ReportSuccess(r)
      PROVE  JobTypeOK'
  BY <1>38 DEF ReportSuccess
<1>39. ASSUME NEW r \in Runs, Acknowledge(r)
      PROVE  JobTypeOK'
  BY <1>39 DEF Acknowledge
<1>40. CASE UNCHANGED vars
  BY <1>40 DEF vars
<1> QED
  BY <1>1, <1>2, <1>3, <1>4, <1>5, <1>6, <1>7, <1>8, <1>9, <1>10,
     <1>11, <1>12, <1>13, <1>14, <1>15, <1>16, <1>17, <1>18, <1>19, <1>20,
     <1>21, <1>22, <1>23, <1>24, <1>25, <1>26, <1>27, <1>28, <1>29, <1>30,
     <1>31, <1>32, <1>33, <1>34, <1>35, <1>36, <1>37, <1>38, <1>39, <1>40 DEF
     Next, JobStep, RunStep, ApiStep, BrokerStep, TaskStep, WatchdogStep

\* What the row, the result backend and the observers say of a job stays true.
LEMMA JobsStep ==
    ASSUME IInv, [Next]_vars
    PROVE  JobsInv'
<1> USE ConstantsAssumption
<1> USE DEF IInv, JobsInv, RunsInv, RunInv, RowInv, CountInv, ReportInv,
       RequestInv, Settled, TypeOK, JobTypeOK, RunTypeOK, RowStates,
       BackendStates, Absent, Terminal, JobFinished, JobGivenUp, JobStillOpen,
       Retryable, RetriesLeft, Verdict, Fault, StoreResult, StatusAfter,
       TryUpdateStatus, Goto, Free, rowVars, questionVars, requestVars,
       observerVars
<1>1. ASSUME NEW j \in Jobs, Generate(j)
      PROVE  JobsInv'
  BY <1>1 DEF Generate
<1>2. ASSUME NEW j \in Jobs, RetryRefused(j)
      PROVE  JobsInv'
  BY <1>2 DEF RetryRefused
<1>3. ASSUME NEW j \in Jobs, NEW k \in Jobs, RetryAccepted(j, k)
      PROVE  JobsInv'
  BY <1>3 DEF RetryAccepted
<1>4. ASSUME NEW j \in Jobs, RetryCommit(j)
      PROVE  JobsInv'
  BY <1>4 DEF RetryCommit
<1>5. ASSUME NEW j \in Jobs, NEW r \in Runs, Publish(j, r)
      PROVE  JobsInv'
  BY <1>5 DEF Publish
<1>6. ASSUME NEW j \in Jobs, PublishFails(j)
      PROVE  JobsInv'
  BY <1>6 DEF PublishFails
<1>7. ASSUME NEW j \in Jobs, UndoJob(j)
      PROVE  JobsInv'
  BY <1>7 DEF UndoJob
<1>8. ASSUME NEW j \in Jobs, RequestDies(j)
      PROVE  JobsInv'
  BY <1>8 DEF RequestDies
<1>9. ASSUME NEW j \in Jobs, DeleteQuestions(j)
      PROVE  JobsInv'
  BY <1>9 DEF DeleteQuestions
<1>10. ASSUME NEW j \in Jobs, Expire(j)
      PROVE  JobsInv'
  BY <1>10 DEF Expire
<1>11. ASSUME NEW j \in Jobs, WatchdogLoad(j)
      PROVE  JobsInv'
  BY <1>11 DEF WatchdogLoad
<1>12. ASSUME NEW j \in Jobs, WatchdogRead(j)
      PROVE  JobsInv'
  BY <1>12 DEF WatchdogRead
<1>13. ASSUME NEW j \in Jobs, WatchdogMirror(j)
      PROVE  JobsInv'
  BY <1>13 DEF WatchdogMirror
<1>14. ASSUME NEW j \in Jobs, WatchdogGivesUp(j)
      PROVE  JobsInv'
  BY <1>14 DEF WatchdogGivesUp
<1>15. ASSUME NEW j \in Jobs, WatchdogNotifies(j)
      PROVE  JobsInv'
  BY <1>15 DEF WatchdogNotifies
<1>16. ASSUME NEW j \in Jobs, ActiveTasksRead(j)
      PROVE  JobsInv'
  BY <1>16 DEF ActiveTasksRead
<1>17. ASSUME NEW j \in Jobs, ActiveTasksSync(j)
      PROVE  JobsInv'
  BY <1>17 DEF ActiveTasksSync
<1>18. ASSUME NEW r \in Runs, RejectWithoutRag(r)
      PROVE  JobsInv'
  BY <1>18 DEF RejectWithoutRag
<1>19. ASSUME NEW r \in Runs, Deliver(r)
      PROVE  JobsInv'
  BY <1>19 DEF Deliver
<1>20. ASSUME NEW r \in Runs, DeliverRevoked(r)
      PROVE  JobsInv'
  BY <1>20 DEF DeliverRevoked
<1>21. ASSUME NEW r \in Runs, WorkerLost(r)
      PROVE  JobsInv'
  BY <1>21 DEF WorkerLost
<1>22. ASSUME NEW r \in Runs, NEW s \in Runs, ChannelLost(r, s)
      PROVE  JobsInv'
  BY <1>22 DEF ChannelLost
<1>23. ASSUME NEW r \in Runs, TimeLimit(r)
      PROVE  JobsInv'
  BY <1>23 DEF TimeLimit
<1>24. ASSUME NEW r \in Runs, CheckJob(r)
      PROVE  JobsInv'
  BY <1>24 DEF CheckJob
<1>25. ASSUME NEW r \in Runs, RepairJob(r)
      PROVE  JobsInv'
  BY <1>25 DEF RepairJob
<1>26. ASSUME NEW r \in Runs, CountRedelivery(r)
      PROVE  JobsInv'
  BY <1>26 DEF CountRedelivery
<1>27. ASSUME NEW r \in Runs, RejectGeneration(r)
      PROVE  JobsInv'
  BY <1>27 DEF RejectGeneration
<1>28. ASSUME NEW r \in Runs, DropMessage(r)
      PROVE  JobsInv'
  BY <1>28 DEF DropMessage
<1>29. ASSUME NEW r \in Runs, SaveGeneration(r)
      PROVE  JobsInv'
  BY <1>29 DEF SaveGeneration, Persist
<1>30. ASSUME NEW r \in Runs, SaveUnlinked(r)
      PROVE  JobsInv'
  BY <1>30 DEF SaveUnlinked, Persist
<1>31. ASSUME NEW r \in Runs, DiscardGeneration(r)
      PROVE  JobsInv'
  BY <1>31 DEF DiscardGeneration
<1>32. ASSUME NEW r \in Runs, RunFails(r)
      PROVE  JobsInv'
  BY <1>32 DEF RunFails
<1>33. ASSUME NEW r \in Runs, RunFailsForGood(r)
      PROVE  JobsInv'
  BY <1>33 DEF RunFailsForGood
<1>34. ASSUME NEW r \in Runs, FailForGood(r)
      PROVE  JobsInv'
  BY <1>34 DEF FailForGood
<1>35. ASSUME NEW r \in Runs, FailOrRetry(r)
      PROVE  JobsInv'
  BY <1>35 DEF FailOrRetry
<1>36. ASSUME NEW r \in Runs, NEW s \in Runs, Autoretry(r, s)
      PROVE  JobsInv'
  BY <1>36 DEF Autoretry
<1>37. ASSUME NEW r \in Runs, ReportFailure(r)
      PROVE  JobsInv'
  BY <1>37 DEF ReportFailure
<1>38. ASSUME NEW r \in Runs, ReportSuccess(r)
      PROVE  JobsInv'
  BY <1>38 DEF ReportSuccess
<1>39. ASSUME NEW r \in Runs, Acknowledge(r)
      PROVE  JobsInv'
  BY <1>39 DEF Acknowledge
<1>40. CASE UNCHANGED vars
  BY <1>40 DEF vars
<1> QED
  BY <1>1, <1>2, <1>3, <1>4, <1>5, <1>6, <1>7, <1>8, <1>9, <1>10,
     <1>11, <1>12, <1>13, <1>14, <1>15, <1>16, <1>17, <1>18, <1>19, <1>20,
     <1>21, <1>22, <1>23, <1>24, <1>25, <1>26, <1>27, <1>28, <1>29, <1>30,
     <1>31, <1>32, <1>33, <1>34, <1>35, <1>36, <1>37, <1>38, <1>39, <1>40 DEF
     Next, JobStep, RunStep, ApiStep, BrokerStep, TaskStep, WatchdogStep

\* What a run knows of its job stays true, in the step it takes and while others move.
LEMMA RunsStep ==
    ASSUME IInv, [Next]_vars
    PROVE  RunsInv'
<1> USE ConstantsAssumption
<1> USE DEF IInv, JobsInv, RunsInv, RunInv, RowInv, RequestInv, Settled,
       TypeOK, JobTypeOK, RunTypeOK, Slot, Executing, InTask, EmptySlot,
       Message, Absent, Terminal, JobFinished, JobGivenUp, JobStillOpen,
       Retryable, RetriesLeft, Verdict, Fault, StoreResult, StatusAfter,
       TryUpdateStatus, Goto, Free, rowVars, questionVars, requestVars,
       observerVars
<1>1. ASSUME NEW j \in Jobs, Generate(j)
      PROVE  RunsInv'
  BY <1>1 DEF Generate
<1>2. ASSUME NEW j \in Jobs, RetryRefused(j)
      PROVE  RunsInv'
  BY <1>2 DEF RetryRefused
<1>3. ASSUME NEW j \in Jobs, NEW k \in Jobs, RetryAccepted(j, k)
      PROVE  RunsInv'
  BY <1>3 DEF RetryAccepted
<1>4. ASSUME NEW j \in Jobs, RetryCommit(j)
      PROVE  RunsInv'
  BY <1>4 DEF RetryCommit
<1>5. ASSUME NEW j \in Jobs, NEW r \in Runs, Publish(j, r)
      PROVE  RunsInv'
  BY <1>5 DEF Publish
<1>6. ASSUME NEW j \in Jobs, PublishFails(j)
      PROVE  RunsInv'
  BY <1>6 DEF PublishFails
<1>7. ASSUME NEW j \in Jobs, UndoJob(j)
      PROVE  RunsInv'
  BY <1>7 DEF UndoJob
<1>8. ASSUME NEW j \in Jobs, RequestDies(j)
      PROVE  RunsInv'
  BY <1>8 DEF RequestDies
<1>9. ASSUME NEW j \in Jobs, DeleteQuestions(j)
      PROVE  RunsInv'
  BY <1>9 DEF DeleteQuestions
<1>10. ASSUME NEW j \in Jobs, Expire(j)
      PROVE  RunsInv'
  BY <1>10 DEF Expire
<1>11. ASSUME NEW j \in Jobs, WatchdogLoad(j)
      PROVE  RunsInv'
  BY <1>11 DEF WatchdogLoad
<1>12. ASSUME NEW j \in Jobs, WatchdogRead(j)
      PROVE  RunsInv'
  BY <1>12 DEF WatchdogRead
<1>13. ASSUME NEW j \in Jobs, WatchdogMirror(j)
      PROVE  RunsInv'
  BY <1>13 DEF WatchdogMirror
<1>14. ASSUME NEW j \in Jobs, WatchdogGivesUp(j)
      PROVE  RunsInv'
  BY <1>14 DEF WatchdogGivesUp
<1>15. ASSUME NEW j \in Jobs, WatchdogNotifies(j)
      PROVE  RunsInv'
  BY <1>15 DEF WatchdogNotifies
<1>16. ASSUME NEW j \in Jobs, ActiveTasksRead(j)
      PROVE  RunsInv'
  BY <1>16 DEF ActiveTasksRead
<1>17. ASSUME NEW j \in Jobs, ActiveTasksSync(j)
      PROVE  RunsInv'
  BY <1>17 DEF ActiveTasksSync
<1>18. ASSUME NEW r \in Runs, RejectWithoutRag(r)
      PROVE  RunsInv'
  BY <1>18 DEF RejectWithoutRag
<1>19. ASSUME NEW r \in Runs, Deliver(r)
      PROVE  RunsInv'
  BY <1>19 DEF Deliver
<1>20. ASSUME NEW r \in Runs, DeliverRevoked(r)
      PROVE  RunsInv'
  BY <1>20 DEF DeliverRevoked
<1>21. ASSUME NEW r \in Runs, WorkerLost(r)
      PROVE  RunsInv'
  BY <1>21 DEF WorkerLost
<1>22. ASSUME NEW r \in Runs, NEW s \in Runs, ChannelLost(r, s)
      PROVE  RunsInv'
  BY <1>22 DEF ChannelLost
<1>23. ASSUME NEW r \in Runs, TimeLimit(r)
      PROVE  RunsInv'
  BY <1>23 DEF TimeLimit
<1>24. ASSUME NEW r \in Runs, CheckJob(r)
      PROVE  RunsInv'
  <2> DEFINE j == run[r].job
  <2>1. ASSUME NEW x \in Runs, x # r PROVE RunInv(x)'
    BY <1>24, <2>1 DEF CheckJob
  <2>2. RunInv(r)'
    <3>1. /\ j \in Jobs /\ status[j] # "NONE"
          /\ run[r].late => status[j] # "PENDING"
          /\ status' = status /\ saved' = saved
      BY <1>24 DEF CheckJob
    <3>2. \A p \in {"generate", "reject"} : Goto(r, p) => RunInv(r)'
      BY <3>1
    <3>3. \A p \in {"return", "repair"} : Goto(r, p) /\ Settled(j) => RunInv(r)'
      BY <3>1
    <3>4. CASE /\ run' = [run EXCEPT ![r] = [@ EXCEPT !.pc = "count",
                              !.seen = redeliveryCount[j]]]
               /\ status[j] = "PENDING"
      BY <3>1, <3>4 DEF CountInv
    <3>5. CASE status[j] = "DELETED"
      BY <1>24, <3>2, <3>3, <3>5 DEF CheckJob
    <3>6. CASE status[j] = "SUCCESS" \/ (status[j] # "DELETED" /\ linked[j])
      BY <1>24, <3>1, <3>3, <3>6 DEF CheckJob
    <3>7. CASE status[j] \in {"PENDING", "FAILURE", "REVOKED"} /\ ~linked[j]
      BY <1>24, <3>1, <3>2, <3>4, <3>7 DEF CheckJob
    <3> QED
      BY <3>1, <3>5, <3>6, <3>7 DEF RowStates
  <2> QED
    BY <2>1, <2>2
<1>25. ASSUME NEW r \in Runs, RepairJob(r)
      PROVE  RunsInv'
  BY <1>25 DEF RepairJob
<1>26. ASSUME NEW r \in Runs, CountRedelivery(r)
      PROVE  RunsInv'
  <2>1. ASSUME NEW x \in Runs, x # r PROVE RunInv(x)'
    BY <1>26, <2>1 DEF CountRedelivery
  <2>2. RunInv(r)'
    BY <1>26 DEF CountRedelivery
  <2> QED
    BY <2>1, <2>2
<1>27. ASSUME NEW r \in Runs, RejectGeneration(r)
      PROVE  RunsInv'
  <2>1. ASSUME NEW x \in Runs, x # r PROVE RunInv(x)'
    BY <1>27, <2>1 DEF RejectGeneration
  <2>2. RunInv(r)'
    <3>1. /\ run[r] \in Slot /\ run[r].pc = "reject"
          /\ run' = [run EXCEPT ![r] = IF run[r].late THEN [@ EXCEPT !.pc = "drop"]
                                                     ELSE EmptySlot]
          /\ status' = status
      BY <1>27 DEF RejectGeneration
    <3>2. CASE run[r].late
      <4>1. /\ run[r].job \in Jobs
            /\ status[run[r].job] \notin {"NONE", "PENDING"}
        BY <3>1, <3>2
      <4>2. /\ run'[r].pc = "drop" /\ run'[r].job = run[r].job
            /\ status' = status
        BY <3>1, <3>2
      <4>3. status'[run'[r].job] \notin {"NONE", "PENDING"} /\ run'[r].job \in Jobs
        BY <4>1, <4>2
      <4>4. run'[r].pc \notin {"repair", "report", "return", "count"}
        BY <4>2
      <4> QED
        BY <4>3, <4>4
    <3>3. CASE ~run[r].late
      BY <3>1, <3>3
    <3> QED
      BY <3>2, <3>3
  <2> QED
    BY <2>1, <2>2
<1>28. ASSUME NEW r \in Runs, DropMessage(r)
      PROVE  RunsInv'
  BY <1>28 DEF DropMessage
<1>29. ASSUME NEW r \in Runs, SaveGeneration(r)
      PROVE  RunsInv'
  BY <1>29 DEF SaveGeneration, Persist
<1>30. ASSUME NEW r \in Runs, SaveUnlinked(r)
      PROVE  RunsInv'
  BY <1>30 DEF SaveUnlinked, Persist
<1>31. ASSUME NEW r \in Runs, DiscardGeneration(r)
      PROVE  RunsInv'
  BY <1>31 DEF DiscardGeneration
<1>32. ASSUME NEW r \in Runs, RunFails(r)
      PROVE  RunsInv'
  <2>1. ASSUME NEW x \in Runs, x # r PROVE RunInv(x)'
    BY <1>32, <2>1 DEF RunFails
  <2>2. RunInv(r)'
    BY <1>32 DEF RunFails
  <2> QED
    BY <2>1, <2>2
<1>33. ASSUME NEW r \in Runs, RunFailsForGood(r)
      PROVE  RunsInv'
  <2>1. ASSUME NEW x \in Runs, x # r PROVE RunInv(x)'
    BY <1>33, <2>1 DEF RunFailsForGood
  <2>2. RunInv(r)'
    BY <1>33 DEF RunFailsForGood
  <2> QED
    BY <2>1, <2>2
<1>34. ASSUME NEW r \in Runs, FailForGood(r)
      PROVE  RunsInv'
  BY <1>34 DEF FailForGood
<1>35. ASSUME NEW r \in Runs, FailOrRetry(r)
      PROVE  RunsInv'
  BY <1>35 DEF FailOrRetry
<1>36. ASSUME NEW r \in Runs, NEW s \in Runs, Autoretry(r, s)
      PROVE  RunsInv'
  <2>1. ASSUME NEW x \in Runs, x # r, x # s PROVE RunInv(x)'
    BY <1>36, <2>1 DEF Autoretry
  <2>2. RunInv(s)' /\ (r # s => RunInv(r)')
    BY <1>36 DEF Autoretry
  <2> QED
    BY <2>1, <2>2
<1>37. ASSUME NEW r \in Runs, ReportFailure(r)
      PROVE  RunsInv'
  BY <1>37 DEF ReportFailure
<1>38. ASSUME NEW r \in Runs, ReportSuccess(r)
      PROVE  RunsInv'
  BY <1>38 DEF ReportSuccess
<1>39. ASSUME NEW r \in Runs, Acknowledge(r)
      PROVE  RunsInv'
  BY <1>39 DEF Acknowledge
<1>40. CASE UNCHANGED vars
  BY <1>40 DEF vars
<1> QED
  BY <1>1, <1>2, <1>3, <1>4, <1>5, <1>6, <1>7, <1>8, <1>9, <1>10,
     <1>11, <1>12, <1>13, <1>14, <1>15, <1>16, <1>17, <1>18, <1>19, <1>20,
     <1>21, <1>22, <1>23, <1>24, <1>25, <1>26, <1>27, <1>28, <1>29, <1>30,
     <1>31, <1>32, <1>33, <1>34, <1>35, <1>36, <1>37, <1>38, <1>39, <1>40 DEF
     Next, JobStep, RunStep, ApiStep, BrokerStep, TaskStep, WatchdogStep

-----------------------------------------------------------------------------
(***************************************************************************)
(* The specification implements JobLifecycle.                              *)
(***************************************************************************)

LifecycleStep == [Lifecycle!Next]_(Lifecycle!lifecycle)

\* The outcome of one job changes.
LEMMA OutcomeUpdate ==
    ASSUME NEW j \in Jobs, NEW to,
           \A k \in Jobs : Outcome(k)' = IF k = j THEN to ELSE Outcome(k)
    PROVE  [k \in Jobs |-> Outcome(k)]' = [[k \in Jobs |-> Outcome(k)] EXCEPT ![j] = to]
OBVIOUS

\* The user sees nothing of the step.
LEMMA Stutter ==
    ASSUME \A k \in Jobs : Outcome(k)' = Outcome(k), linked' = linked, parent' = parent
    PROVE  LifecycleStep
BY DEF LifecycleStep, Lifecycle!lifecycle

LEMMA Unseen ==
    ASSUME UNCHANGED <<status, saved, linked, parent>>
    PROVE  LifecycleStep
BY Stutter DEF Outcome

\* A status that says FAILURE or REVOKED, or a SUCCESS whose questions are
\* there, gives an open job up and changes no other.
LEMMA GivenUp ==
    ASSUME IInv, NEW j \in Jobs, NEW new \in Terminal, new = "SUCCESS" => saved[j] = 1,
           status[j] \notin {"NONE", "DELETED"},
           status' = [status EXCEPT ![j] = new],
           saved' = saved, linked' = linked, parent' = parent
    PROVE  LifecycleStep
<1> USE DEF IInv, JobsInv, RowInv, TypeOK, JobTypeOK, RowStates, Terminal, Absent
<1>1. CASE status[j] = "PENDING"
  <2>1. Outcome(j) = "open"
    BY <1>1 DEF Outcome
  <2>2. \A k \in Jobs : Outcome(k)' = IF k = j THEN "givenUp" ELSE Outcome(k)
    BY <1>1 DEF Outcome
  <2>3. Lifecycle!GiveUp(j)
    BY <2>1, <2>2, OutcomeUpdate DEF Lifecycle!GiveUp, Lifecycle!Ends
  <2> QED
    BY <2>3 DEF LifecycleStep, Lifecycle!Next
<1>2. CASE status[j] # "PENDING"
  <2>1. \A k \in Jobs : Outcome(k)' = Outcome(k)
    BY <1>2 DEF Outcome
  <2> QED
    BY <2>1, Stutter
<1> QED
  BY <1>1, <1>2

\* A status write that follows _try_update_job_status does no more than that.
LEMMA StatusWrite ==
    ASSUME IInv, NEW j \in Jobs, NEW new \in Terminal, new = "SUCCESS" => Settled(j),
           TryUpdateStatus(j, new), saved' = saved, linked' = linked, parent' = parent
    PROVE  LifecycleStep
<1>1. CASE status' = status
  BY <1>1, Stutter DEF Outcome
<1>2. CASE status[j] \notin {"NONE", "DELETED"} /\ status' = [status EXCEPT ![j] = new]
  BY <1>2, GivenUp DEF Settled
<1> QED
  BY <1>1, <1>2 DEF TryUpdateStatus, StatusAfter, Absent, IInv, TypeOK, JobTypeOK

\* Every step is a step of JobLifecycle or leaves its state alone.
LEMMA StepSimulation ==
    ASSUME IInv, [Next]_vars
    PROVE  LifecycleStep
<1> USE ConstantsAssumption
<1> USE DEF JobStillOpen, Retryable, Absent, IInv, JobsInv, RunsInv, TypeOK,
       JobTypeOK, RowStates, rowVars, questionVars, requestVars, observerVars
<1>1. ASSUME NEW j \in Jobs, Generate(j)
      PROVE  LifecycleStep
  <2>1. Outcome(j) = "absent"
    BY <1>1 DEF Generate, RequestInv, Outcome
  <2>2. \A k \in Jobs : Outcome(k)' = IF k = j THEN "open" ELSE Outcome(k)
    BY <1>1 DEF Generate, RowInv, Outcome
  <2>3. Lifecycle!Start(j)
    BY <1>1, <2>1, <2>2, OutcomeUpdate DEF Generate, Lifecycle!Start, Lifecycle!Ends
  <2> QED
    BY <2>3 DEF LifecycleStep, Lifecycle!Next
<1>2. ASSUME NEW j \in Jobs, RetryRefused(j)
      PROVE  LifecycleStep
  <2>1. \A k \in Jobs : Outcome(k)' = Outcome(k)
    BY <1>2 DEF RetryRefused, RowInv, Outcome
  <2> QED
    BY <1>2, <2>1, Stutter DEF RetryRefused
<1>3. ASSUME NEW j \in Jobs, NEW k \in Jobs, RetryAccepted(j, k)
      PROVE  LifecycleStep
  <2>1. Outcome(j) \in {"done", "givenUp"} /\ Outcome(k) = "absent"
    BY <1>3 DEF RetryAccepted, Outcome
  <2>2. \A x \in Jobs : Outcome(x)' = Outcome(x)
    BY <1>3 DEF RetryAccepted, Outcome
  <2>3. Lifecycle!Retry(j, k)
    BY <1>3, <2>1, <2>2 DEF RetryAccepted, Lifecycle!Retry
  <2> QED
    BY <2>3 DEF LifecycleStep, Lifecycle!Next
<1>4. ASSUME NEW j \in Jobs, RetryCommit(j)
      PROVE  LifecycleStep
  <2>1. Outcome(j) = "absent"
    BY <1>4 DEF RetryCommit, RequestInv, Outcome
  <2>2. \A k \in Jobs : Outcome(k)' = IF k = j THEN "open" ELSE Outcome(k)
    BY <1>4 DEF RetryCommit, RowInv, Outcome
  <2>3. Lifecycle!Start(j)
    BY <1>4, <2>1, <2>2, OutcomeUpdate DEF RetryCommit, Lifecycle!Start, Lifecycle!Ends
  <2> QED
    BY <2>3 DEF LifecycleStep, Lifecycle!Next
<1>5. ASSUME NEW j \in Jobs, NEW r \in Runs, Publish(j, r)
      PROVE  LifecycleStep
  BY <1>5, Unseen DEF Publish
<1>6. ASSUME NEW j \in Jobs, PublishFails(j)
      PROVE  LifecycleStep
  BY <1>6, Unseen DEF PublishFails
<1>7. ASSUME NEW j \in Jobs, UndoJob(j)
      PROVE  LifecycleStep
  <2>1. CASE status[j] = "DELETED"
    <3>1. \A k \in Jobs : Outcome(k)' = Outcome(k)
      BY <1>7, <2>1 DEF UndoJob, Outcome
    <3>2. linked' = linked
      BY <1>7, <2>1 DEF UndoJob, RowInv
    <3> QED
      BY <1>7, <3>1, <3>2, Stutter DEF UndoJob
  <2>2. CASE status[j] # "DELETED"
    <3>1. Outcome(j) \in {"open", "done", "givenUp"}
      BY <1>7, <2>2 DEF UndoJob, RequestInv, Outcome
    <3>2. \A k \in Jobs : Outcome(k)' = IF k = j THEN "withdrawn" ELSE Outcome(k)
      BY <1>7 DEF UndoJob, Outcome
    <3>3. Lifecycle!Withdraw(j)
      BY <1>7, <3>1, <3>2, OutcomeUpdate
      DEF UndoJob, Lifecycle!Withdraw, Lifecycle!Ends
    <3> QED
      BY <3>3 DEF LifecycleStep, Lifecycle!Next
  <2> QED
    BY <2>1, <2>2
<1>8. ASSUME NEW j \in Jobs, RequestDies(j)
      PROVE  LifecycleStep
  BY <1>8, Unseen DEF RequestDies
<1>9. ASSUME NEW j \in Jobs, DeleteQuestions(j)
      PROVE  LifecycleStep
  <2>1. \A k \in Jobs : Outcome(k)' = Outcome(k)
    BY <1>9 DEF DeleteQuestions, Outcome
  <2>2. Lifecycle!Delete(j)
    BY <1>9, <2>1 DEF DeleteQuestions, Lifecycle!Delete
  <2> QED
    BY <2>2 DEF LifecycleStep, Lifecycle!Next
<1>10. ASSUME NEW j \in Jobs, Expire(j)
      PROVE  LifecycleStep
  BY <1>10, Unseen DEF Expire
<1>11. ASSUME NEW j \in Jobs, WatchdogLoad(j)
      PROVE  LifecycleStep
  BY <1>11, Unseen DEF WatchdogLoad
<1>12. ASSUME NEW j \in Jobs, WatchdogRead(j)
      PROVE  LifecycleStep
  BY <1>12, Unseen DEF WatchdogRead
<1>13. ASSUME NEW j \in Jobs, WatchdogMirror(j)
      PROVE  LifecycleStep
  <2>1. watchdog[j] \in Terminal /\ (watchdog[j] = "SUCCESS" => Settled(j))
    BY <1>13 DEF WatchdogMirror, ReportInv, Terminal
  <2> QED
    BY <1>13, <2>1, StatusWrite DEF WatchdogMirror
<1>14. ASSUME NEW j \in Jobs, WatchdogGivesUp(j)
      PROVE  LifecycleStep
  BY <1>14, StatusWrite DEF WatchdogGivesUp, Terminal
<1>15. ASSUME NEW j \in Jobs, WatchdogNotifies(j)
      PROVE  LifecycleStep
  BY <1>15, Unseen DEF WatchdogNotifies
<1>16. ASSUME NEW j \in Jobs, ActiveTasksRead(j)
      PROVE  LifecycleStep
  BY <1>16, Unseen DEF ActiveTasksRead
<1>17. ASSUME NEW j \in Jobs, ActiveTasksSync(j)
      PROVE  LifecycleStep
  <2>1. mirror[j] \in Terminal /\ (mirror[j] = "SUCCESS" => Settled(j))
    BY <1>17 DEF ActiveTasksSync, ReportInv, Terminal
  <2> QED
    BY <1>17, <2>1, StatusWrite DEF ActiveTasksSync
<1>18. ASSUME NEW r \in Runs, RejectWithoutRag(r)
      PROVE  LifecycleStep
  <2>1. run[r].job \in Jobs
    BY <1>18, BusySlot DEF RejectWithoutRag
  <2> QED
    BY <1>18, <2>1, StatusWrite DEF RejectWithoutRag, Terminal
<1>19. ASSUME NEW r \in Runs, Deliver(r)
      PROVE  LifecycleStep
  BY <1>19, Unseen DEF Deliver
<1>20. ASSUME NEW r \in Runs, DeliverRevoked(r)
      PROVE  LifecycleStep
  BY <1>20, Unseen DEF DeliverRevoked
<1>21. ASSUME NEW r \in Runs, WorkerLost(r)
      PROVE  LifecycleStep
  BY <1>21, Unseen DEF WorkerLost
<1>22. ASSUME NEW r \in Runs, NEW s \in Runs, ChannelLost(r, s)
      PROVE  LifecycleStep
  BY <1>22, Unseen DEF ChannelLost
<1>23. ASSUME NEW r \in Runs, TimeLimit(r)
      PROVE  LifecycleStep
  BY <1>23, Unseen DEF TimeLimit
<1>24. ASSUME NEW r \in Runs, CheckJob(r)
      PROVE  LifecycleStep
  BY <1>24, Unseen DEF CheckJob
<1>25. ASSUME NEW r \in Runs, RepairJob(r)
      PROVE  LifecycleStep
  <2>1. run[r].job \in Jobs /\ Settled(run[r].job)
    BY <1>25, BusySlot DEF RepairJob, RunInv
  <2>2. \A k \in Jobs : Outcome(k)' = Outcome(k)
    BY <1>25, <2>1 DEF RepairJob, RowInv, Outcome, Settled, Absent
  <2> QED
    BY <1>25, <2>2, Stutter DEF RepairJob
<1>26. ASSUME NEW r \in Runs, CountRedelivery(r)
      PROVE  LifecycleStep
  <2>1. run[r].job \in Jobs /\ status[run[r].job] \notin {"NONE", "DELETED"}
    BY <1>26, BusySlot DEF CountRedelivery, Absent
  <2>2. CASE UNCHANGED status
    BY <1>26, <2>2, Unseen DEF CountRedelivery
  <2>3. CASE status' = [status EXCEPT ![run[r].job] = "FAILURE"]
    BY <1>26, <2>1, <2>3, GivenUp DEF CountRedelivery, Terminal
  <2> QED
    BY <1>26, <2>2, <2>3 DEF CountRedelivery
<1>27. ASSUME NEW r \in Runs, RejectGeneration(r)
      PROVE  LifecycleStep
  BY <1>27, Unseen DEF RejectGeneration
<1>28. ASSUME NEW r \in Runs, DropMessage(r)
      PROVE  LifecycleStep
  <2>1. run[r].job \in Jobs
    BY <1>28, BusySlot DEF DropMessage
  <2> QED
    BY <1>28, <2>1, StatusWrite DEF DropMessage, Terminal
<1>29. ASSUME NEW r \in Runs, SaveGeneration(r)
      PROVE  LifecycleStep
  <2> DEFINE j == run[r].job
  <2>1. j \in Jobs /\ Outcome(j) = "open"
    BY <1>29, BusySlot DEF SaveGeneration, Persist, Outcome
  <2>2. \A k \in Jobs : Outcome(k)' = IF k = j THEN "done" ELSE Outcome(k)
    BY <1>29, <2>1 DEF SaveGeneration, Persist, RowInv, Outcome
  <2>3. Lifecycle!Finish(j)
    BY <1>29, <2>1, <2>2, OutcomeUpdate
    DEF SaveGeneration, Persist, Lifecycle!Finish, Lifecycle!Ends, requestVars
  <2> QED
    BY <2>1, <2>3 DEF LifecycleStep, Lifecycle!Next
<1>30. ASSUME NEW r \in Runs, SaveUnlinked(r)
      PROVE  LifecycleStep
  <2>1. run[r].job \in Jobs /\ status[run[r].job] = "DELETED"
    BY <1>30, BusySlot DEF SaveUnlinked, Persist, RunInv, Absent
  <2>2. \A k \in Jobs : Outcome(k)' = Outcome(k)
    BY <1>30, <2>1 DEF SaveUnlinked, Persist, Outcome
  <2> QED
    BY <1>30, <2>2, Stutter DEF SaveUnlinked, Persist
<1>31. ASSUME NEW r \in Runs, DiscardGeneration(r)
      PROVE  LifecycleStep
  BY <1>31, Unseen DEF DiscardGeneration
<1>32. ASSUME NEW r \in Runs, RunFails(r)
      PROVE  LifecycleStep
  BY <1>32, Unseen DEF RunFails
<1>33. ASSUME NEW r \in Runs, RunFailsForGood(r)
      PROVE  LifecycleStep
  BY <1>33, Unseen DEF RunFailsForGood
<1>34. ASSUME NEW r \in Runs, FailForGood(r)
      PROVE  LifecycleStep
  <2>1. run[r].job \in Jobs
    BY <1>34, BusySlot DEF FailForGood
  <2> QED
    BY <1>34, <2>1, StatusWrite DEF FailForGood, Terminal
<1>35. ASSUME NEW r \in Runs, FailOrRetry(r)
      PROVE  LifecycleStep
  <2>1. run[r].job \in Jobs
    BY <1>35, BusySlot DEF FailOrRetry
  <2>2. CASE TryUpdateStatus(run[r].job, "FAILURE")
    BY <1>35, <2>1, <2>2, StatusWrite DEF FailOrRetry, Terminal
  <2>3. CASE UNCHANGED status
    BY <1>35, <2>3, Unseen DEF FailOrRetry
  <2> QED
    BY <1>35, <2>2, <2>3 DEF FailOrRetry
<1>36. ASSUME NEW r \in Runs, NEW s \in Runs, Autoretry(r, s)
      PROVE  LifecycleStep
  BY <1>36, Unseen DEF Autoretry
<1>37. ASSUME NEW r \in Runs, ReportFailure(r)
      PROVE  LifecycleStep
  BY <1>37, Unseen DEF ReportFailure
<1>38. ASSUME NEW r \in Runs, ReportSuccess(r)
      PROVE  LifecycleStep
  BY <1>38, Unseen DEF ReportSuccess
<1>39. ASSUME NEW r \in Runs, Acknowledge(r)
      PROVE  LifecycleStep
  BY <1>39, Unseen DEF Acknowledge
<1>40. CASE UNCHANGED vars
  BY <1>40, Unseen DEF vars
<1> QED
  BY <1>1, <1>2, <1>3, <1>4, <1>5, <1>6, <1>7, <1>8, <1>9, <1>10,
     <1>11, <1>12, <1>13, <1>14, <1>15, <1>16, <1>17, <1>18, <1>19, <1>20,
     <1>21, <1>22, <1>23, <1>24, <1>25, <1>26, <1>27, <1>28, <1>29, <1>30,
     <1>31, <1>32, <1>33, <1>34, <1>35, <1>36, <1>37, <1>38, <1>39, <1>40 DEF
     Next, JobStep, RunStep, ApiStep, BrokerStep, TaskStep, WatchdogStep

-----------------------------------------------------------------------------
(***************************************************************************)
(* The theorems                                                            *)
(***************************************************************************)

LEMMA InitInvariant == Init => IInv
<1> SUFFICES ASSUME Init PROVE IInv
  OBVIOUS
<1> USE ConstantsAssumption DEF Init
<1>1. JobTypeOK
  BY DEF JobTypeOK, RowStates, Absent, BackendStates
<1>2. RunTypeOK
  BY EmptySlotType DEF RunTypeOK
<1>3. JobsInv
  <2> SUFFICES ASSUME NEW j \in Jobs
               PROVE  RowInv(j) /\ CountInv(j) /\ ReportInv(j) /\ RequestInv(j)
    BY DEF JobsInv
  <2>1. RowInv(j)
    BY DEF RowInv
  <2>2. CountInv(j)
    BY DEF CountInv
  <2>3. ReportInv(j)
    BY DEF ReportInv
  <2>4. RequestInv(j)
    BY DEF RequestInv
  <2> QED
    BY <2>1, <2>2, <2>3, <2>4
<1>4. RunsInv
  BY DEF RunsInv, RunInv, EmptySlot
<1> QED
  BY <1>1, <1>2, <1>3, <1>4 DEF IInv, TypeOK

\* The invariant holds in every reachable state.
THEOREM Invariance == Spec => []IInv
<1>1. IInv /\ [Next]_vars => IInv'
  BY JobTypeStep, RunTypeStep, JobsStep, RunsStep DEF IInv, TypeOK
<1> QED
  BY InitInvariant, <1>1, PTL DEF Spec

\* Every variable keeps its type; no redelivery is counted beyond
\* _MAX_REDELIVERIES and no message retried beyond max_retries.
THEOREM TypeCorrect == Spec => []TypeOK
<1>1. IInv => TypeOK
  BY DEF IInv
<1> QED
  BY Invariance, <1>1, PTL

\* _check_job_at_start and _save_generation store at most one set of
\* questions for a job, for any number of deliveries, retries and crashes.
THEOREM QuestionsStoredOnce == Spec => []AtMostOneSet
<1>1. IInv => AtMostOneSet
  BY DEF IInv, JobsInv, RowInv, AtMostOneSet
<1> QED
  BY Invariance, <1>1, PTL

\* A row that says SUCCESS has stored its questions, whoever wrote it, and so
\* has a SUCCESS in Celery's result backend.
THEOREM SuccessIsTrue == Spec => []SuccessMeansSaved
<1>1. IInv => SuccessMeansSaved
  BY DEF IInv, JobsInv, RowInv, ReportInv, Settled, SuccessMeansSaved
<1> QED
  BY Invariance, <1>1, PTL

\* No stale message or slow run adds questions to a job its user retried.
THEOREM RetryIsSafe == Spec => []RetriedJobStaysEmpty
<1>1. IInv => RetriedJobStaysEmpty
  BY DEF IInv, JobsInv, RequestInv, RetriedJobStaysEmpty
<1> QED
  BY Invariance, <1>1, PTL

\* The row, the broker, the result backend, the watchdog and /active-tasks
\* together do to a job only what JobLifecycle promises its user.
THEOREM LifecycleImplemented == Spec => ImplementsLifecycle
<1>1. Init => Lifecycle!Init
  BY DEF Init, Lifecycle!Init, Outcome
<1>2. IInv /\ [Next]_vars => LifecycleStep
  BY StepSimulation
<1> QED
  BY <1>1, <1>2, Invariance, PTL
  DEF Spec, ImplementsLifecycle, Lifecycle!Spec, LifecycleStep

=====
