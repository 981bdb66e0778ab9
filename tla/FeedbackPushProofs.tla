------------------------- MODULE FeedbackPushProofs -------------------------
(***************************************************************************)
(* What FeedbackPush keeps for any jobs, runs, students and marks: a       *)
(* redelivered message sends nothing twice, a report is true, and Moodle   *)
(* stores only marks the reviewers had finished.                           *)
(***************************************************************************)
EXTENDS FeedbackPush, TLAPS

JobTypes ==
    /\ status \in [Jobs -> {"none", "queued", "processing"} \cup Terminal]
    /\ counted \in [Jobs -> Buckets]
    /\ reaper \in [Jobs -> BOOLEAN]
    /\ request \in [Jobs -> {"none", "committed", "done"}]

RunTypes ==
    /\ run \in [Runs -> Slot]
    /\ \A r \in Runs : run[r].pc # "idle" => run[r].job \in Jobs

GradeTypes ==
    /\ mark \in [Students -> Marks]
    /\ reviewed \in [Students -> BOOLEAN]
    /\ final \in [Students -> SUBSET Marks]
    /\ reviews \in 0..MaxReviews

MoodleTypes ==
    /\ moodle \in [Students -> Marks \cup {NoMark}]
    /\ sent \in [Jobs -> [Students -> Nat]]

Limited == faults \in 0..MaxFaults

Typed == JobTypes /\ RunTypes /\ GradeTypes /\ MoodleTypes /\ Limited

-----------------------------------------------------------------------------
(***************************************************************************)
(* Types                                                                   *)
(***************************************************************************)

\* What a run holds has its type.
LEMMA HeldTyped ==
    ASSUME NEW pc \in PCs, NEW j \in Jobs \cup {NoJob},
           NEW payload \in [Students -> Marks \cup {NoMark}], NEW todo \in SUBSET Students,
           NEW results \in Buckets
    PROVE  Held(pc, j, payload, todo, results) \in Slot
BY DEF Held, Slot

\* A result has its type.
LEMMA ResultTyped ==
    ASSUME NEW A \in SUBSET Students, NEW B \in SUBSET Students, NEW C \in SUBSET Students
    PROVE  Result(A, B, C) \in Buckets
BY DEF Result, Buckets

\* An empty slot, a message and the payload of a message.
LEMMA SlotsTyped ==
    /\ NoBuckets \in Buckets
    /\ NoPayload \in [Students -> Marks \cup {NoMark}]
    /\ EmptySlot \in Slot /\ EmptySlot.pc = "idle"
    /\ \A j \in Jobs : Message(j) \in Slot /\ Message(j).pc = "queued" /\ Message(j).job = j
<1>1. NoBuckets \in Buckets
  BY ResultTyped DEF NoBuckets
<1>2. NoPayload \in [Students -> Marks \cup {NoMark}]
  BY DEF NoPayload
<1>3. EmptySlot \in Slot /\ EmptySlot.pc = "idle"
  BY <1>1, <1>2 DEF EmptySlot, Held, Slot, PCs
<1>4. ASSUME NEW j \in Jobs
      PROVE  Message(j) \in Slot /\ Message(j).pc = "queued" /\ Message(j).job = j
  BY <1>1, <1>2 DEF Message, Held, Slot, PCs
<1> QED BY <1>1, <1>2, <1>3, <1>4

\* A step that gives one slot a new content.
LEMMA HoldTyped ==
    ASSUME Typed, NEW r \in Runs, NEW held \in Slot, held.pc # "idle" => held.job \in Jobs,
           Hold(r, held)
    PROVE  RunTypes'
BY DEF Typed, RunTypes, Hold

\* The types hold at the start.
LEMMA InitTyped == Init => Typed
<1> SUFFICES ASSUME Init PROVE Typed
  OBVIOUS
<1>1. run \in [Runs -> Slot] /\ \A r \in Runs : run[r].pc = "idle"
  BY SlotsTyped DEF Init
<1>2. counted \in [Jobs -> Buckets]
  BY SlotsTyped DEF Init
<1>3. 0 \in Marks
  BY ConstantsAssumption DEF Marks
<1>4. GradeTypes /\ MoodleTypes /\ Limited
  BY <1>3, ConstantsAssumption DEF Init, GradeTypes, MoodleTypes, Limited
<1> QED BY <1>1, <1>2, <1>4 DEF Init, Typed, JobTypes, RunTypes

\* Requests keep the types.
LEMMA RequestTyped ==
    ASSUME Typed, NEW j \in Jobs, Request(j) \/ Watch(j)
    PROVE  Typed'
<1>1. GradeTypes' /\ MoodleTypes'
  BY DEF Request, Watch, CreateJob, Publish, PublishFails, RequestDies, ReaperLoads, ReaperFails,
         Typed, GradeTypes, MoodleTypes, gradeVars, moodleVars
<1>2. Limited'
  BY ConstantsAssumption DEF Request, Watch, CreateJob, Publish, PublishFails, RequestDies,
         ReaperLoads, ReaperFails, Fault, Typed, Limited
<1>3. counted' \in [Jobs -> Buckets] /\ request' \in [Jobs -> {"none", "committed", "done"}]
  BY DEF Request, Watch, CreateJob, Publish, PublishFails, RequestDies, ReaperLoads, ReaperFails,
         Typed, JobTypes
<1>4. reaper' \in [Jobs -> BOOLEAN]
  BY DEF Request, Watch, CreateJob, Publish, PublishFails, RequestDies, ReaperLoads, ReaperFails,
         Typed, JobTypes
<1>5. status' \in [Jobs -> {"none", "queued", "processing"} \cup Terminal]
  BY DEF Request, Watch, CreateJob, Publish, PublishFails, RequestDies, ReaperLoads, ReaperFails,
         SetStatus, Typed, JobTypes, Terminal
<1>6. RunTypes'
  <2>1. CASE UNCHANGED run
    BY <2>1 DEF Typed, RunTypes
  <2>2. ASSUME NEW r \in Runs, Publish(j, r) PROVE RunTypes'
    BY <2>2, SlotsTyped, HoldTyped DEF Publish
  <2> QED BY <2>1, <2>2 DEF Request, Watch, CreateJob, PublishFails, RequestDies, ReaperLoads,
                            ReaperFails
<1> QED BY <1>1, <1>2, <1>3, <1>4, <1>5, <1>6 DEF Typed, JobTypes

\* A step of a run leaves a slot of the right type.
LEMMA WorkHolds ==
    ASSUME Typed, NEW r \in Runs, Work(r)
    PROVE  \E held \in Slot : /\ Hold(r, held)
                              /\ held.pc # "idle" => held.job \in Jobs
<1> DEFINE j == run[r].job
           payload == run[r].payload
           todo == run[r].todo
           results == run[r].results
<1>1. /\ run[r] \in Slot
      /\ run[r].pc # "idle" => j \in Jobs
  BY DEF Typed, RunTypes
<1>2. /\ j \in Jobs \cup {NoJob} /\ payload \in [Students -> Marks \cup {NoMark}]
      /\ todo \in SUBSET Students /\ results \in Buckets
      /\ results.ok \in SUBSET Students /\ results.notFound \in SUBSET Students
      /\ results.failed \in SUBSET Students
  BY <1>1 DEF Slot, Buckets
<1>3. \A pc, p, t, b : Held(pc, j, p, t, b).pc = pc /\ Held(pc, j, p, t, b).job = j
  BY DEF Held
<1>4. \A pc \in PCs : Held(pc, j, payload, todo, results) \in Slot
  BY <1>2, HeldTyped
<1>5. CASE Claim(r)
  <2>1. Held("payload", j, NoPayload, {}, NoBuckets) \in Slot
    BY <1>2, HeldTyped, SlotsTyped DEF PCs, Working
  <2>2. "ack" \in PCs /\ j \in Jobs
    BY <1>1, <1>5 DEF PCs, Claim
  <2> QED BY <1>3, <1>4, <1>5, <2>1, <2>2 DEF Claim, Goto
<1>6. CASE BuildPayload(r)
  <2> DEFINE p == [s \in Students |-> IF InPayload(s) THEN mark[s] ELSE NoMark]
  <2>1. p \in [Students -> Marks \cup {NoMark}]
    BY DEF Typed, GradeTypes
  <2> HIDE DEF p
  <2>2. Held("probe", j, p, {}, NoBuckets) \in Slot
    BY <1>2, <2>1, HeldTyped, SlotsTyped DEF PCs, Working
  <2>3. Hold(r, Held("probe", j, p, {}, NoBuckets)) /\ j \in Jobs
    BY <1>1, <1>6 DEF BuildPayload, p
  <2> QED BY <1>3, <2>2, <2>3
<1>7. CASE SelectTransport(r)
  <2>1. InRun(r) \in SUBSET Students /\ j \in Jobs
    BY <1>1, <1>7 DEF InRun, SelectTransport
  <2>2. /\ \A pc \in {"plugin", "gradebook"} :
              Held(pc, j, payload, Sendable(r), Result({}, {}, InRun(r) \cap Slotless)) \in Slot
        /\ Held("finish", j, payload, {}, Result({}, {}, InRun(r))) \in Slot
    BY <1>2, <2>1, HeldTyped, ResultTyped DEF PCs, Working, Sendable
  <2> QED BY <1>3, <1>7, <2>1, <2>2 DEF SelectTransport
<1>8. CASE PluginPush(r)
  <2>1. PICK ok \in SUBSET todo, unknown \in SUBSET todo :
           Hold(r, Held("finish", j, payload, {},
                        Result(ok, unknown, results.failed \cup (todo \ (ok \cup unknown)))))
    BY <1>8 DEF PluginPush
  <2>2. Held("finish", j, payload, {},
             Result(ok, unknown, results.failed \cup (todo \ (ok \cup unknown)))) \in Slot
    BY <1>2, HeldTyped, ResultTyped DEF PCs, Working
  <2>3. j \in Jobs
    BY <1>1, <1>8 DEF PluginPush
  <2> QED BY <1>3, <2>1, <2>2, <2>3
<1>9. ASSUME NEW s \in Students, GradebookPush(r, s)
      PROVE  \E held \in Slot : Hold(r, held) /\ (held.pc # "idle" => held.job \in Jobs)
  <2>1. PICK bucket :
           Hold(r, Held("gradebook", j, payload, todo \ {s}, Add(results, bucket, s)))
    BY <1>9 DEF GradebookPush
  <2>2. Held("gradebook", j, payload, todo \ {s}, Add(results, bucket, s)) \in Slot
    BY <1>2, HeldTyped, ResultTyped DEF PCs, Working, Add
  <2>3. j \in Jobs
    BY <1>1, <1>9 DEF GradebookPush
  <2> QED BY <1>3, <2>1, <2>2, <2>3
<1>10. CASE GradebookDone(r) \/ Complete(r) \/ RunRaises(r) \/ RecordFailure(r)
  <2>1. j \in Jobs
    BY <1>1, <1>10 DEF GradebookDone, Complete, RunRaises, RecordFailure
  <2>2. {"finish", "error", "ack"} \subseteq PCs
    BY DEF PCs, Working
  <2>3. \E pc \in {"finish", "error", "ack"} : Hold(r, Held(pc, j, payload, todo, results))
    BY <1>10 DEF GradebookDone, Complete, RunRaises, RecordFailure, Goto
  <2> QED BY <1>3, <1>4, <2>1, <2>2, <2>3
<1>11. CASE Acknowledge(r)
  BY <1>11, SlotsTyped DEF Acknowledge
<1> QED BY <1>5, <1>6, <1>7, <1>8, <1>9, <1>10, <1>11 DEF Work

\* Marks that are sent stay marks.
LEMMA SendTyped ==
    ASSUME Typed, NEW r \in Runs, NEW S, run[r].job \in Jobs, Send(r, S)
    PROVE  MoodleTypes'
<1>1. run[r].payload \in [Students -> Marks \cup {NoMark}]
  BY DEF Typed, RunTypes, Slot
<1>2. moodle' \in [Students -> Marks \cup {NoMark}]
  BY <1>1 DEF Send, Typed, MoodleTypes
<1>3. sent' \in [Jobs -> [Students -> Nat]]
  <2> DEFINE j == run[r].job
             row == [s \in Students |-> sent[j][s] + IF s \in S THEN 1 ELSE 0]
  <2>1. sent[j] \in [Students -> Nat]
    BY DEF Typed, MoodleTypes
  <2>2. \A s \in Students : sent[j][s] + (IF s \in S THEN 1 ELSE 0) \in Nat
    BY <2>1
  <2>3. row \in [Students -> Nat]
    BY <2>2
  <2>4. sent' = [sent EXCEPT ![j] = row]
    BY DEF Send
  <2> HIDE DEF row
  <2> QED BY <2>3, <2>4 DEF Typed, MoodleTypes
<1> QED BY <1>2, <1>3 DEF MoodleTypes

\* The steps of a run keep the types.
LEMMA WorkTyped ==
    ASSUME Typed, NEW r \in Runs, Work(r)
    PROVE  Typed'
<1>1. RunTypes'
  BY WorkHolds, HoldTyped
<1>2. GradeTypes'
  BY DEF Work, Claim, BuildPayload, SelectTransport, PluginPush, GradebookPush, GradebookDone,
         Complete, RunRaises, RecordFailure, Acknowledge, Typed, GradeTypes, gradeVars
<1>3. Limited'
  <2>1. Fault \/ UNCHANGED faults
    BY DEF Work, Claim, BuildPayload, SelectTransport, PluginPush, GradebookPush, GradebookDone,
           Complete, RunRaises, RecordFailure, Acknowledge
  <2> QED BY <2>1, ConstantsAssumption DEF Typed, Limited, Fault
<1>4. JobTypes'
  <2>1. /\ UNCHANGED <<reaper, request>>
        /\ UNCHANGED counted \/ counted' = [counted EXCEPT ![run[r].job] = run[r].results]
        /\ UNCHANGED status
              \/ \E new \in {"processing"} \cup Terminal : SetStatus(run[r].job, new)
    BY DEF Work, Claim, BuildPayload, SelectTransport, PluginPush, GradebookPush, GradebookDone,
           Complete, RunRaises, RecordFailure, Acknowledge, jobVars, Terminal
  <2>2. run[r].results \in Buckets
    BY DEF Typed, RunTypes, Slot
  <2>3. counted' \in [Jobs -> Buckets]
    BY <2>1, <2>2 DEF Typed, JobTypes
  <2>4. status' \in [Jobs -> {"none", "queued", "processing"} \cup Terminal]
    BY <2>1 DEF SetStatus, Typed, JobTypes
  <2> QED BY <2>1, <2>3, <2>4 DEF Typed, JobTypes
<1>5. MoodleTypes'
  <2>1. UNCHANGED moodleVars \/ \E S : Send(r, S) /\ run[r].pc # "idle"
    BY DEF Work, Claim, BuildPayload, SelectTransport, PluginPush, GradebookPush, GradebookDone,
           Complete, RunRaises, RecordFailure, Acknowledge
  <2>2. CASE UNCHANGED moodleVars
    BY <2>2 DEF Typed, MoodleTypes, moodleVars
  <2>3. run[r].pc # "idle" => run[r].job \in Jobs
    BY DEF Typed, RunTypes
  <2> QED BY <2>1, <2>2, <2>3, SendTyped
<1> QED BY <1>1, <1>2, <1>3, <1>4, <1>5 DEF Typed

\* Every step keeps the types.
LEMMA StepTyped == Typed /\ [Next]_vars => Typed'
<1> SUFFICES ASSUME Typed, [Next]_vars PROVE Typed'
  OBVIOUS
<1>1. ASSUME NEW r \in Runs, Trouble(r) PROVE Typed'
  <2>1. JobTypes' /\ GradeTypes' /\ MoodleTypes'
    BY <1>1 DEF Trouble, WorkerLost, MessageGone, Redeliver, jobVars, gradeVars, moodleVars,
                Typed, JobTypes, GradeTypes, MoodleTypes
  <2>2. Limited'
    BY <1>1, ConstantsAssumption DEF Trouble, WorkerLost, MessageGone, Redeliver, Fault, Typed,
                                     Limited
  <2>3. RunTypes'
    <3>1. "idle" \notin Working \cup {"ack"}
      BY DEF Working
    <3>2. run[r].pc # "idle" => run[r].job \in Jobs
      BY DEF Typed, RunTypes
    <3> QED BY <1>1, <3>1, <3>2, SlotsTyped, HoldTyped DEF Trouble, WorkerLost, MessageGone,
                                                        Redeliver
  <2> QED BY <2>1, <2>2, <2>3 DEF Typed
<1>2. ASSUME NEW s \in Students, NEW m \in Marks, NEW done \in BOOLEAN, Review(s, m, done)
      PROVE  Typed'
  <2>1. GradeTypes'
    BY <1>2, ConstantsAssumption DEF Review, Typed, GradeTypes
  <2> QED BY <1>2, <2>1 DEF Review, jobVars, moodleVars, Typed, JobTypes, RunTypes, MoodleTypes,
                           Limited
<1>3. CASE UNCHANGED vars
  BY <1>3 DEF vars, jobVars, gradeVars, moodleVars, Typed, JobTypes, RunTypes, GradeTypes,
              MoodleTypes, Limited
<1> QED BY <1>1, <1>2, <1>3, RequestTyped, WorkTyped DEF Next

-----------------------------------------------------------------------------
(***************************************************************************)
(* One run at a time sends for a job                                       *)
(***************************************************************************)

Live(r) == run[r].pc \in Working

\* A run that claimed its job is the only one, and the job never becomes
\* claimable again.
Exclusive ==
    /\ \A r \in Runs : Live(r) => status[run[r].job] \in {"processing"} \cup Terminal
    /\ \A r, q \in Runs : Live(r) /\ Live(q) /\ run[r].job = run[q].job => r = q
    /\ \A j \in Jobs : request[j] = "none" => status[j] = "none" /\ ~reaper[j]

\* What a run has still to send was not sent, what it calls sent was, and its
\* students fall into one bucket.
Books(r) ==
    LET j == run[r].job
    IN  /\ run[r].pc \in {"payload", "probe"} => \A s \in Students : sent[j][s] = 0
        /\ \A s \in run[r].todo : sent[j][s] = 0
        /\ \A s \in run[r].results.ok : sent[j][s] >= 1
        /\ Apart(run[r].results, run[r].todo)

Accounts ==
    /\ \A r \in Runs : Live(r) => Books(r)
    /\ \A j \in Jobs, s \in Students : sent[j][s] <= 1
    /\ \A j \in Jobs : status[j] \in {"none", "queued"} => \A s \in Students : sent[j][s] = 0
    /\ \A j \in Jobs : Apart(counted[j], {}) /\ \A s \in counted[j].ok : sent[j][s] >= 1

\* Marks on their way to Moodle, and there, were final.
Finals ==
    /\ \A s \in Students : reviewed[s] => mark[s] \in final[s]
    /\ \A r \in Runs, s \in Students :
          run[r].payload[s] # NoMark => run[r].payload[s] \in final[s]
    /\ \A s \in Students : moodle[s] # NoMark => moodle[s] \in final[s]

Inv == Typed /\ Exclusive /\ Accounts /\ Finals

\* The step of another slot, or none, on the statuses: what Exclusive and
\* Accounts see of it.
LEMMA QuietStep ==
    ASSUME Inv, UNCHANGED <<counted, sent>>,
           \A r \in Runs : Live(r)' => run'[r] = run[r] /\ Live(r),
           \A j \in Jobs : /\ status'[j] \in {"none", "queued"} =>
                                status[j] \in {"none", "queued"}
                                   /\ \A r \in Runs : ~(Live(r) /\ run[r].job = j)
                           /\ request'[j] = "none" => status'[j] = "none" /\ ~reaper'[j],
           status' \in [Jobs -> {"none", "queued", "processing"} \cup Terminal]
    PROVE  Exclusive' /\ Accounts'
<1>1. \A r \in Runs : Live(r) => run[r].job \in Jobs
  BY DEF Inv, Typed, RunTypes, Live, Working
<1>2. \A r \in Runs : Live(r)' => status'[run'[r].job] \in {"processing"} \cup Terminal
  BY <1>1 DEF Terminal
<1>3. \A r, q \in Runs : Live(r)' /\ Live(q)' /\ run'[r].job = run'[q].job => r = q
  BY DEF Inv, Exclusive
<1>4. Exclusive'
  BY <1>2, <1>3 DEF Exclusive
<1>5. \A r \in Runs : Live(r)' => Books(r)'
  BY DEF Inv, Accounts, Books
<1>6. Accounts'
  BY <1>5 DEF Inv, Accounts
<1> QED BY <1>4, <1>6

\* A new job has sent nothing and holds nothing.
LEMMA RequestKeeps ==
    ASSUME Inv, NEW j \in Jobs, Request(j) \/ Watch(j)
    PROVE  Exclusive' /\ Accounts'
<1>1. UNCHANGED <<counted, sent>>
  BY DEF Request, Watch, CreateJob, Publish, PublishFails, RequestDies, ReaperLoads, ReaperFails,
         moodleVars
<1>2. \A r \in Runs : Live(r)' => run'[r] = run[r] /\ Live(r)
  <2>1. ASSUME NEW q \in Runs, Publish(j, q)
        PROVE  \A r \in Runs : Live(r)' => run'[r] = run[r] /\ Live(r)
    <3>1. run' = [run EXCEPT ![q] = Message(j)] /\ Message(j).pc = "queued"
      BY <2>1, SlotsTyped DEF Publish, Hold
    <3> QED BY <3>1 DEF Live, Working, Inv, Typed, RunTypes
  <2> QED BY <2>1 DEF Request, Watch, CreateJob, PublishFails, RequestDies, ReaperLoads,
                      ReaperFails, Live
<1>3. \A r \in Runs : Live(r) => run[r].job \in Jobs
                                 /\ status[run[r].job] \in {"processing"} \cup Terminal
  BY DEF Inv, Exclusive, Typed, RunTypes, Live, Working
<1>4. status' \in [Jobs -> {"none", "queued", "processing"} \cup Terminal]
  BY RequestTyped DEF Inv, Typed, JobTypes
<1>5. ASSUME NEW i \in Jobs, status'[i] \in {"none", "queued"}
      PROVE  status[i] \in {"none", "queued"}
  BY <1>5 DEF Request, Watch, CreateJob, Publish, PublishFails, RequestDies, ReaperLoads,
              ReaperFails, SetStatus, Inv, Exclusive, Typed, JobTypes
<1>6. ASSUME NEW i \in Jobs, request'[i] = "none"
      PROVE  status'[i] = "none" /\ ~reaper'[i]
  BY <1>6 DEF Request, Watch, CreateJob, Publish, PublishFails, RequestDies, ReaperLoads,
              ReaperFails, SetStatus, Stuck, Inv, Exclusive, Typed, JobTypes
<1>7. \A i \in Jobs : status[i] \in {"none", "queued"} =>
                         \A r \in Runs : ~(Live(r) /\ run[r].job = i)
  BY <1>3 DEF Terminal
<1> QED BY <1>1, <1>2, <1>4, <1>5, <1>6, <1>7, QuietStep

\* Losses and the reaper send nothing.
LEMMA TroubleKeeps ==
    ASSUME Inv, NEW r \in Runs, Trouble(r)
    PROVE  Exclusive' /\ Accounts'
<1>1. UNCHANGED <<status, counted, reaper, request, sent>>
  BY DEF Trouble, WorkerLost, MessageGone, Redeliver, jobVars, moodleVars
<1>2. PICK q \in Runs, held \in Slot : Hold(q, held) /\ held.pc \notin Working
  <2>1. run[r].pc # "idle" => run[r].job \in Jobs
    BY DEF Inv, Typed, RunTypes
  <2>2. "idle" \notin Working \cup {"ack"} /\ "queued" \notin Working
    BY DEF Working
  <2> QED BY <2>1, <2>2, SlotsTyped DEF Trouble, WorkerLost, MessageGone, Redeliver
<1>3. \A p \in Runs : Live(p)' => run'[p] = run[p] /\ Live(p)
  BY <1>2 DEF Hold, Live, Inv, Typed, RunTypes
<1>4. \A i \in Jobs : status[i] \in {"none", "queued"} =>
                         \A p \in Runs : ~(Live(p) /\ run[p].job = i)
  BY DEF Inv, Exclusive, Terminal
<1> QED BY <1>1, <1>3, <1>4, QuietStep DEF Inv, Exclusive, Typed, JobTypes

\* A live run takes a step: its job keeps its claim, nothing but its own marks
\* are sent, and its books stay right.
LEMMA LiveStep ==
    ASSUME Inv, NEW r \in Runs, Live(r), NEW held \in Slot, Hold(r, held),
           held.job = run[r].job,
           UNCHANGED <<reaper, request>>,
           \/ UNCHANGED status
           \/ \E new \in Terminal : status' = [status EXCEPT ![run[r].job] = new],
           \/ UNCHANGED counted
           \/ /\ counted' = [counted EXCEPT ![run[r].job] = run[r].results]
              /\ Apart(run[r].results, {})
              /\ \A s \in run[r].results.ok : sent'[run[r].job][s] >= 1,
           MoodleTypes', \A i \in Jobs \ {run[r].job} : sent'[i] = sent[i],
           \A s \in Students : /\ sent'[run[r].job][s] <= 1
                               /\ sent'[run[r].job][s] >= sent[run[r].job][s],
           held.pc \in Working => Books(r)'
    PROVE  Exclusive' /\ Accounts'
<1> DEFINE j == run[r].job
<1>1. j \in Jobs /\ status[j] \in {"processing"} \cup Terminal
  BY DEF Inv, Exclusive, Typed, RunTypes, Live, Working
<1>2. /\ run'[r] = held
      /\ \A q \in Runs \ {r} : run'[q] = run[q]
  BY DEF Hold, Inv, Typed, RunTypes
<1>3. \A q \in Runs : Live(q)' => Live(q) /\ run'[q].job = run[q].job
  BY <1>2 DEF Live
<1>4. \A i \in Jobs : /\ i # j => status'[i] = status[i]
                      /\ status'[j] \in {"processing"} \cup Terminal
  BY <1>1 DEF Inv, Typed, JobTypes
<1>5. Exclusive'
  <2>1. \A q \in Runs : Live(q) => run[q].job \in Jobs
    BY DEF Inv, Typed, RunTypes, Live, Working
  <2>2. \A q \in Runs : Live(q)' => status'[run'[q].job] \in {"processing"} \cup Terminal
    BY <1>3, <1>4, <2>1 DEF Inv, Exclusive
  <2>3. \A q, p \in Runs : Live(q)' /\ Live(p)' /\ run'[q].job = run'[p].job => q = p
    BY <1>3 DEF Inv, Exclusive
  <2>4. \A i \in Jobs : request'[i] = "none" => status'[i] = "none" /\ ~reaper'[i]
    BY <1>1, <1>4 DEF Inv, Exclusive, Terminal
  <2> QED BY <2>2, <2>3, <2>4 DEF Exclusive
<1>6. \A q \in Runs : Live(q)' => Books(q)'
  <2>1. ASSUME NEW q \in Runs, q # r, Live(q)' PROVE Books(q)'
    <3>1. run'[q] = run[q] /\ Live(q) /\ run[q].job \in Jobs /\ run[q].job # j
      BY <1>2, <2>1 DEF Live, Working, Inv, Exclusive, Typed, RunTypes
    <3>2. Books(q) /\ sent'[run[q].job] = sent[run[q].job]
      BY <3>1 DEF Inv, Accounts
    <3> QED BY <3>1, <3>2 DEF Books
  <2> QED BY <1>2, <2>1 DEF Live
<1>7. \A i \in Jobs, s \in Students : sent'[i][s] <= 1
  BY DEF Inv, Accounts
<1>8. \A i \in Jobs : status'[i] \in {"none", "queued"} => \A s \in Students : sent'[i][s] = 0
  BY <1>1, <1>4 DEF Inv, Accounts, Terminal
<1>9. ASSUME NEW i \in Jobs
      PROVE  Apart(counted'[i], {}) /\ \A s \in counted'[i].ok : sent'[i][s] >= 1
  <2>1. /\ counted[i].ok \subseteq Students
        /\ \A s \in Students : sent[i][s] \in Nat /\ sent'[i][s] \in Nat
    BY DEF Inv, Typed, JobTypes, MoodleTypes, Buckets
  <2>2. Apart(counted[i], {}) /\ \A s \in counted[i].ok : sent[i][s] >= 1
    BY DEF Inv, Accounts
  <2>3. \A s \in Students : sent'[i][s] >= sent[i][s]
    BY <2>1
  <2>4. CASE counted'[i] = counted[i]
    BY <2>1, <2>2, <2>3, <2>4
  <2>5. CASE i = j /\ counted' = [counted EXCEPT ![j] = run[r].results]
               /\ Apart(run[r].results, {})
               /\ \A s \in run[r].results.ok : sent'[j][s] >= 1
    BY <1>1, <2>5 DEF Inv, Typed, JobTypes
  <2> QED BY <2>4, <2>5 DEF Inv, Typed, JobTypes
<1> QED BY <1>5, <1>6, <1>7, <1>8, <1>9 DEF Accounts

\* What a call to Moodle changes.
LEMMA SendEffect ==
    ASSUME Inv, NEW r \in Runs, Live(r), NEW S \in SUBSET run[r].todo, Send(r, S)
    PROVE  /\ MoodleTypes'
           /\ \A i \in Jobs \ {run[r].job} : sent'[i] = sent[i]
           /\ \A s \in Students :
                 /\ sent'[run[r].job][s] = sent[run[r].job][s] + IF s \in S THEN 1 ELSE 0
                 /\ s \in S => sent[run[r].job][s] = 0
                 /\ sent'[run[r].job][s] \in 0..1
                 /\ sent'[run[r].job][s] >= sent[run[r].job][s]
<1> DEFINE j == run[r].job
<1>1. j \in Jobs
  BY DEF Inv, Typed, RunTypes, Live, Working
<1>2. MoodleTypes'
  BY <1>1, SendTyped DEF Inv
<1>3. /\ \A i \in Jobs \ {j} : sent'[i] = sent[i]
      /\ \A s \in Students : sent'[j][s] = sent[j][s] + IF s \in S THEN 1 ELSE 0
  BY <1>1 DEF Send, Inv, Typed, MoodleTypes
<1>4. \A s \in Students : /\ s \in S => sent[j][s] = 0
                          /\ sent[j][s] \in Nat /\ sent[j][s] <= 1
  BY <1>1 DEF Inv, Accounts, Books, Typed, MoodleTypes
<1> QED BY <1>2, <1>3, <1>4

\* The steps of a run keep the exclusive claim and the accounts.
LEMMA WorkKeeps ==
    ASSUME Inv, NEW r \in Runs, Work(r)
    PROVE  Exclusive' /\ Accounts'
<1> DEFINE j == run[r].job
           payload == run[r].payload
           todo == run[r].todo
           results == run[r].results
<1>1. /\ run[r] \in Slot /\ (run[r].pc # "idle" => j \in Jobs)
      /\ todo \in SUBSET Students /\ results \in Buckets
  BY DEF Inv, Typed, RunTypes, Slot
<1>2. \A pc, p, t, b : /\ Held(pc, j, p, t, b).pc = pc /\ Held(pc, j, p, t, b).job = j
                       /\ Held(pc, j, p, t, b).todo = t /\ Held(pc, j, p, t, b).results = b
  BY DEF Held
<1>3. ASSUME NEW held, Hold(r, held)
      PROVE  run'[r] = held /\ \A q \in Runs \ {r} : run'[q] = run[q]
  BY <1>3 DEF Hold, Inv, Typed, RunTypes
<1>4. \A held : Hold(r, held) => held \in Slot
  BY <1>3, WorkTyped DEF Inv, Typed, RunTypes
<1>5. MoodleTypes /\ MoodleTypes'
  BY WorkTyped DEF Inv, Typed
<1>6. Live(r) => j \in Jobs /\ \A s \in Students : sent[j][s] \in Nat /\ sent[j][s] <= 1
  BY <1>1, <1>5 DEF Inv, Accounts, MoodleTypes, Live, Working
<1>7. CASE Claim(r) /\ Claimable(j)
  <2>1. /\ j \in Jobs /\ status[j] = "queued"
        /\ status' = [status EXCEPT ![j] = "processing"]
        /\ Hold(r, Held("payload", j, NoPayload, {}, NoBuckets))
        /\ UNCHANGED <<counted, reaper, request, sent>>
    BY <1>1, <1>7 DEF Claim, Claimable, SetStatus, moodleVars
  <2>2. /\ run'[r] = Held("payload", j, NoPayload, {}, NoBuckets)
        /\ \A q \in Runs \ {r} : run'[q] = run[q]
    BY <1>3, <2>1
  <2>3. \A q \in Runs : Live(q) => run[q].job # j /\ run[q].job \in Jobs
    BY <2>1 DEF Inv, Exclusive, Typed, RunTypes, Live, Working, Terminal
  <2>4. /\ status'[j] = "processing"
        /\ \A i \in Jobs \ {j} : status'[i] = status[i]
    BY <2>1 DEF Inv, Typed, JobTypes
  <2>5. \A q \in Runs : q # r => (Live(q)' <=> Live(q))
    BY <2>2 DEF Live
  <2>6. run'[r].job = j
    BY <1>2, <2>2
  <2>7. Exclusive'
    <3>1. \A q \in Runs : Live(q)' => status'[run'[q].job] \in {"processing"} \cup Terminal
      BY <2>2, <2>3, <2>4, <2>5, <2>6 DEF Inv, Exclusive
    <3>2. \A q, p \in Runs : Live(q)' /\ Live(p)' /\ run'[q].job = run'[p].job => q = p
      BY <2>2, <2>3, <2>5, <2>6 DEF Inv, Exclusive
    <3>3. \A i \in Jobs : request'[i] = "none" => status'[i] = "none" /\ ~reaper'[i]
      BY <2>1, <2>4 DEF Inv, Exclusive
    <3> QED BY <3>1, <3>2, <3>3 DEF Exclusive
  <2>8. Books(r)'
    <3>1. \A s \in Students : sent[j][s] = 0
      BY <2>1 DEF Inv, Accounts
    <3>2. Apart(NoBuckets, {}) /\ NoBuckets.ok = {}
      BY DEF Apart, NoBuckets, Result
    <3> QED BY <1>2, <2>1, <2>2, <3>1, <3>2 DEF Books
  <2>9. ASSUME NEW q \in Runs, Live(q)', q # r PROVE Books(q)'
    BY <2>1, <2>2, <2>5, <2>9 DEF Inv, Accounts, Books
  <2>10. Accounts'
    BY <2>1, <2>4, <2>8, <2>9 DEF Inv, Accounts
  <2> QED BY <2>7, <2>10
<1>8. ASSUME NEW held, Hold(r, held), held.pc \notin Working,
             UNCHANGED <<jobVars, sent>>
      PROVE  Exclusive' /\ Accounts'
  <2>1. \A q \in Runs : Live(q)' => run'[q] = run[q] /\ Live(q)
    BY <1>3, <1>8 DEF Live
  <2>2. \A i \in Jobs : status[i] \in {"none", "queued"} =>
                           \A q \in Runs : ~(Live(q) /\ run[q].job = i)
    BY DEF Inv, Exclusive, Terminal
  <2> QED BY <1>8, <2>1, <2>2, QuietStep DEF Inv, Exclusive, Typed, JobTypes, jobVars
<1>9. CASE Claim(r) /\ ~Claimable(j)
  BY <1>2, <1>8, <1>9 DEF Claim, Goto, Working, jobVars, moodleVars
<1>10. CASE Acknowledge(r)
  BY <1>8, <1>10, SlotsTyped DEF Acknowledge, Working, moodleVars
<1>11. CASE BuildPayload(r)
  <2> DEFINE p == [s \in Students |-> IF InPayload(s) THEN mark[s] ELSE NoMark]
             held == Held("probe", j, p, {}, NoBuckets)
  <2>1. Hold(r, held) /\ UNCHANGED <<jobVars, sent>> /\ Live(r) /\ run[r].pc = "payload"
    BY <1>11 DEF BuildPayload, Live, Working, moodleVars
  <2> HIDE DEF p
  <2>2. run'[r] = held /\ held \in Slot /\ held.job = j
    BY <1>2, <1>3, <1>4, <2>1
  <2>3. \A s \in Students : sent[j][s] = 0
    BY <2>1 DEF Inv, Accounts, Books
  <2>4. Apart(NoBuckets, {}) /\ NoBuckets.ok = {}
    BY DEF Apart, NoBuckets, Result
  <2>5. Books(r)'
    BY <1>2, <2>1, <2>2, <2>3, <2>4 DEF Books
  <2> QED BY <1>5, <1>6, <2>1, <2>2, <2>5, LiveStep DEF jobVars
<1>12. CASE SelectTransport(r)
  <2>1. Live(r) /\ UNCHANGED <<jobVars, sent>> /\ run[r].pc = "probe" /\ InRun(r) \subseteq Students
    BY <1>12 DEF SelectTransport, Live, Working, moodleVars, InRun
  <2>2. \A s \in Students : sent[j][s] = 0
    BY <2>1 DEF Inv, Accounts, Books
  <2>3. ASSUME NEW pc, NEW t \in SUBSET Students, NEW f \in SUBSET Students, t \cap f = {},
               Hold(r, Held(pc, j, payload, t, Result({}, {}, f))), pc \notin {"payload", "probe"}
        PROVE  Exclusive' /\ Accounts'
    <3>1. run'[r] = Held(pc, j, payload, t, Result({}, {}, f))
      BY <1>3, <2>3
    <3>2. Apart(Result({}, {}, f), t) /\ Result({}, {}, f).ok = {}
      BY <2>3 DEF Apart, Result
    <3>3. Books(r)'
      BY <1>2, <2>1, <2>2, <2>3, <3>1, <3>2 DEF Books
    <3> QED BY <1>2, <1>4, <1>5, <1>6, <2>1, <2>3, <3>3, LiveStep DEF jobVars
  <2>4. CASE \E transport \in {"plugin", "gradebook"} :
                Hold(r, Held(transport, j, payload, Sendable(r),
                             Result({}, {}, InRun(r) \cap Slotless)))
    <3>1. /\ Sendable(r) \in SUBSET Students /\ InRun(r) \cap Slotless \in SUBSET Students
          /\ Sendable(r) \cap (InRun(r) \cap Slotless) = {}
      BY <2>1 DEF Sendable
    <3> QED BY <2>3, <2>4, <3>1
  <2>5. CASE Hold(r, Held("finish", j, payload, {}, Result({}, {}, InRun(r))))
    BY <2>1, <2>3, <2>5
  <2> QED BY <1>12, <2>4, <2>5 DEF SelectTransport
<1>13. CASE PluginPush(r)
  <2>1. PICK ok, unknown, S \in SUBSET todo :
           /\ ok \cap unknown = {} /\ ok \subseteq S /\ Send(r, S)
           /\ Hold(r, Held("finish", j, payload, {},
                        Result(ok, unknown, results.failed \cup (todo \ (ok \cup unknown)))))
    BY <1>13 DEF PluginPush
  <2> DEFINE b == Result(ok, unknown, results.failed \cup (todo \ (ok \cup unknown)))
             held == Held("finish", j, payload, {}, b)
  <2>2. Live(r) /\ UNCHANGED jobVars /\ S \in SUBSET todo
    BY <1>13, <2>1 DEF PluginPush, Live, Working
  <2>3. run'[r] = held /\ held \in Slot
    BY <1>3, <1>4, <2>1
  <2>4. Apart(results, todo)
    BY <2>2 DEF Inv, Accounts, Books
  <2>5. Apart(b, {}) /\ b.ok = ok
    BY <2>1, <2>4 DEF Apart, Result
  <2>6. \A s \in ok : sent'[j][s] >= 1
    BY <1>1, <2>1, <2>2, SendEffect
  <2> HIDE DEF b
  <2>7. Books(r)'
    BY <1>2, <2>3, <2>5, <2>6 DEF Books
  <2>8. held.job = j
    BY <1>2
  <2>9. /\ \A i \in Jobs \ {j} : sent'[i] = sent[i]
        /\ \A s \in Students : sent'[j][s] <= 1 /\ sent'[j][s] >= sent[j][s]
    BY <2>1, <2>2, SendEffect
  <2> HIDE DEF held
  <2> QED BY <1>5, <2>1, <2>2, <2>3, <2>7, <2>8, <2>9, LiveStep DEF jobVars, b, held
<1>14. ASSUME NEW s \in Students, GradebookPush(r, s)
       PROVE  Exclusive' /\ Accounts'
  <2>1. PICK answer \in {"ok", "notFound", "error"} :
           /\ \/ answer # "notFound" /\ Send(r, {s})
              \/ answer # "ok" /\ UNCHANGED moodleVars
           /\ Hold(r, Held("gradebook", j, payload, todo \ {s},
                           Add(results, GradebookResult(answer), s)))
    BY <1>14 DEF GradebookPush
  <2> DEFINE b == Add(results, GradebookResult(answer), s)
             held == Held("gradebook", j, payload, todo \ {s}, b)
  <2>2. Live(r) /\ UNCHANGED jobVars /\ {s} \in SUBSET todo
    BY <1>14 DEF GradebookPush, Live, Working
  <2>3. run'[r] = held /\ held \in Slot
    BY <1>3, <1>4, <2>1
  <2>4. Apart(results, todo) /\ \A x \in results.ok : sent[j][x] >= 1
    BY <2>2 DEF Inv, Accounts, Books
  <2>5. Apart(b, todo \ {s})
    BY <2>2, <2>4 DEF Apart, Add, Result
  <2>6. /\ \A i \in Jobs \ {j} : sent'[i] = sent[i]
        /\ \A x \in Students : sent'[j][x] <= 1 /\ sent'[j][x] >= sent[j][x]
        /\ \A x \in todo \ {s} : sent'[j][x] = 0
        /\ answer = "ok" => sent'[j][s] = 1
    <3>1. CASE Send(r, {s})
      <4>1. \A x \in todo : sent[j][x] = 0
        BY <2>2 DEF Inv, Accounts, Books
      <4> QED BY <1>1, <1>6, <2>2, <3>1, <4>1, SendEffect
    <3>2. CASE answer # "ok" /\ UNCHANGED moodleVars
      BY <1>6, <2>2, <3>2 DEF moodleVars, Inv, Accounts, Books
    <3> QED BY <2>1, <3>1, <3>2
  <2>7. \A x \in b.ok : sent'[j][x] >= 1
    <3>1. \A x \in b.ok : x \in results.ok \/ (x = s /\ answer = "ok")
      BY DEF Add, Result, GradebookResult
    <3>2. results.ok \subseteq Students
      BY <1>1 DEF Buckets
    <3>3. \A x \in Students : sent'[j][x] \in Nat /\ sent[j][x] \in Nat
      BY <1>5, <1>6, <2>2 DEF MoodleTypes
    <3> QED BY <2>4, <2>6, <3>1, <3>2, <3>3
  <2> HIDE DEF b
  <2>8. Books(r)'
    BY <1>2, <2>3, <2>5, <2>6, <2>7 DEF Books
  <2>9. held.job = j
    BY <1>2
  <2> HIDE DEF held
  <2> QED BY <1>5, <2>1, <2>2, <2>3, <2>6, <2>8, <2>9, LiveStep DEF jobVars, b, held
<1>15. ASSUME NEW pc, Goto(r, pc), Live(r), UNCHANGED <<reaper, request, sent>>,
              pc \notin {"payload", "probe"},
              \/ UNCHANGED status
              \/ \E new \in Terminal : status' = [status EXCEPT ![j] = new],
              \/ UNCHANGED counted
              \/ counted' = [counted EXCEPT ![j] = results]
       PROVE  Exclusive' /\ Accounts'
  <2> DEFINE held == Held(pc, j, payload, todo, results)
  <2>1. Hold(r, held) /\ run'[r] = held /\ held \in Slot /\ held.job = j
    BY <1>2, <1>3, <1>4, <1>15 DEF Goto
  <2>2. Books(r)
    BY <1>15 DEF Inv, Accounts
  <2>3. Books(r)'
    BY <1>2, <1>15, <2>1, <2>2 DEF Books
  <2>4. Apart(results, {}) /\ \A s \in results.ok : sent[j][s] >= 1
    BY <2>2 DEF Books, Apart
  <2> HIDE DEF held
  <2> QED BY <1>5, <1>6, <1>15, <2>1, <2>3, <2>4, LiveStep
<1>16. CASE GradebookDone(r) \/ Complete(r) \/ RunRaises(r) \/ RecordFailure(r)
  <2>1. PICK pc \in {"finish", "ack", "error"} : Goto(r, pc)
    BY <1>16 DEF GradebookDone, Complete, RunRaises, RecordFailure
  <2>2. /\ Live(r) /\ UNCHANGED <<reaper, request, sent>>
        /\ UNCHANGED counted \/ counted' = [counted EXCEPT ![j] = results]
        /\ UNCHANGED status \/ \E new \in Terminal : status' = [status EXCEPT ![j] = new]
    BY <1>16 DEF GradebookDone, Complete, RunRaises, RecordFailure, SetStatus, Terminal, Live,
                 Working, jobVars, moodleVars
  <2> QED BY <1>15, <2>1, <2>2
<1> QED BY <1>7, <1>9, <1>10, <1>11, <1>12, <1>13, <1>14, <1>16 DEF Work

-----------------------------------------------------------------------------
(***************************************************************************)
(* Marks in Moodle were final                                              *)
(***************************************************************************)

\* The steps of a run send only final marks.
LEMMA WorkKeepsFinals ==
    ASSUME Inv, NEW r \in Runs, Work(r)
    PROVE  Finals'
<1> DEFINE j == run[r].job
           payload == run[r].payload
<1>1. UNCHANGED <<mark, reviewed, final>>
  BY DEF Work, Claim, BuildPayload, SelectTransport, PluginPush, GradebookPush, GradebookDone,
         Complete, RunRaises, RecordFailure, Acknowledge, gradeVars
<1>2. ASSUME NEW held, Hold(r, held),
             \A s \in Students : held.payload[s] # NoMark => held.payload[s] \in final[s]
      PROVE  \A q \in Runs, s \in Students :
                run'[q].payload[s] # NoMark => run'[q].payload[s] \in final[s]
  BY <1>2 DEF Hold, Inv, Finals, Typed, RunTypes
<1>3. \A pc, p, t, b : Held(pc, j, p, t, b).payload = p
  BY DEF Held
<1>4. \A s \in Students : payload[s] # NoMark => payload[s] \in final[s]
  BY DEF Inv, Finals
<1>5. \A q \in Runs, s \in Students :
         run'[q].payload[s] # NoMark => run'[q].payload[s] \in final[s]
  <2>1. CASE BuildPayload(r)
    <3>1. \A s \in Students : [x \in Students |-> IF InPayload(x) THEN mark[x] ELSE NoMark][s]
             # NoMark => [x \in Students |-> IF InPayload(x) THEN mark[x] ELSE NoMark][s]
                            \in final[s]
      BY DEF InPayload, Inv, Finals
    <3> QED BY <1>2, <1>3, <2>1, <3>1 DEF BuildPayload
  <2>2. CASE Claim(r) /\ Claimable(j)
    <3>1. \A s \in Students : NoPayload[s] = NoMark
      BY DEF NoPayload
    <3> QED BY <1>2, <1>3, <2>2, <3>1 DEF Claim
  <2>3. CASE Acknowledge(r)
    <3>1. \A s \in Students : EmptySlot.payload[s] = NoMark
      BY DEF EmptySlot, Held, NoPayload
    <3> QED BY <1>2, <2>3, <3>1 DEF Acknowledge
  <2>4. CASE \E pc, t, b : Hold(r, Held(pc, j, payload, t, b))
    BY <1>2, <1>3, <1>4, <2>4
  <2>5. \/ BuildPayload(r) \/ Acknowledge(r) \/ (Claim(r) /\ Claimable(j))
        \/ \E pc, t, b : Hold(r, Held(pc, j, payload, t, b))
    BY DEF Work, Claim, SelectTransport, PluginPush, GradebookPush, GradebookDone,
           Complete, RunRaises, RecordFailure, Goto
  <2> QED BY <2>1, <2>2, <2>3, <2>4, <2>5
<1>6. \A s \in Students : moodle'[s] # NoMark => moodle'[s] \in final[s]
  <2>1. UNCHANGED moodle \/ \E S : Send(r, S)
    BY DEF Work, Claim, BuildPayload, SelectTransport, PluginPush, GradebookPush, GradebookDone,
           Complete, RunRaises, RecordFailure, Acknowledge, moodleVars
  <2>2. \A s \in Students : moodle[s] # NoMark => moodle[s] \in final[s]
    BY DEF Inv, Finals
  <2>3. ASSUME NEW S, Send(r, S)
        PROVE  \A s \in Students : moodle'[s] = payload[s] \/ moodle'[s] = moodle[s]
    BY <2>3 DEF Send
  <2>4. \A s \in Students : moodle'[s] = payload[s] \/ moodle'[s] = moodle[s]
    BY <2>1, <2>3
  <2>5. final' = final
    BY <1>1
  <2> HIDE DEF payload
  <2> QED BY <1>4, <2>2, <2>4, <2>5
<1>7. \A s \in Students : reviewed'[s] => mark'[s] \in final'[s]
  BY <1>1 DEF Inv, Finals
<1>8. final' = final
  BY <1>1
<1> QED BY <1>5, <1>6, <1>7, <1>8 DEF Finals

\* Every step keeps the invariant.
LEMMA StepKeeps == Inv /\ [Next]_vars => Inv'
<1> SUFFICES ASSUME Inv, [Next]_vars PROVE Exclusive' /\ Accounts' /\ Finals'
  BY StepTyped DEF Inv
<1>1. ASSUME NEW s \in Students, NEW m \in Marks, NEW done \in BOOLEAN, Review(s, m, done)
      PROVE  Exclusive' /\ Accounts' /\ Finals'
  <2>1. /\ UNCHANGED <<status, counted, reaper, request, run, moodle, sent>>
        /\ mark'[s] = m /\ reviewed'[s] = done
        /\ final'[s] = IF done THEN final[s] \cup {m} ELSE final[s]
        /\ \A x \in Students \ {s} : mark'[x] = mark[x] /\ reviewed'[x] = reviewed[x]
                                     /\ final'[x] = final[x]
    BY <1>1 DEF Review, jobVars, moodleVars, Inv, Typed, GradeTypes
  <2>2. Exclusive' /\ Accounts'
    BY <2>1 DEF Inv, Exclusive, Accounts, Books, Live
  <2>3. \A x \in Students : final[x] \subseteq final'[x]
    BY <2>1
  <2>4. Finals'
    BY <2>1, <2>3 DEF Inv, Finals
  <2> QED BY <2>2, <2>4
<1>2. CASE UNCHANGED vars
  BY <1>2 DEF vars, jobVars, gradeVars, moodleVars, Inv, Exclusive, Accounts, Books, Live, Finals
<1>3. ASSUME NEW j \in Jobs, Request(j) \/ Watch(j) PROVE Exclusive' /\ Accounts' /\ Finals'
  <2>1. UNCHANGED <<mark, reviewed, final, moodle>>
    BY <1>3 DEF Request, Watch, CreateJob, Publish, PublishFails, RequestDies, ReaperLoads,
                ReaperFails, gradeVars, moodleVars
  <2>2. \A r \in Runs, s \in Students :
           run'[r].payload[s] = run[r].payload[s] \/ run'[r].payload[s] = NoMark
    BY <1>3 DEF Request, Watch, CreateJob, Publish, PublishFails, RequestDies, ReaperLoads,
                ReaperFails, Hold, Message, Held, NoPayload, Inv, Typed, RunTypes
  <2>3. Finals'
    BY <2>1, <2>2 DEF Inv, Finals
  <2> QED BY <1>3, <2>3, RequestKeeps
<1>4. ASSUME NEW r \in Runs, Trouble(r) PROVE Exclusive' /\ Accounts' /\ Finals'
  <2>1. UNCHANGED <<mark, reviewed, final, moodle>>
    BY <1>4 DEF Trouble, WorkerLost, MessageGone, Redeliver, gradeVars, moodleVars
  <2>2. \A q \in Runs, s \in Students :
           run'[q].payload[s] = run[q].payload[s] \/ run'[q].payload[s] = NoMark
    BY <1>4 DEF Trouble, WorkerLost, MessageGone, Redeliver, Hold, Message, EmptySlot, Held,
                NoPayload, Inv, Typed, RunTypes
  <2>3. Finals'
    BY <2>1, <2>2 DEF Inv, Finals
  <2> QED BY <1>4, <2>3, TroubleKeeps
<1> QED BY <1>1, <1>2, <1>3, <1>4, WorkKeeps, WorkKeepsFinals DEF Next

\* The invariant holds at the start.
LEMMA InitKeeps == Init => Inv
<1> SUFFICES ASSUME Init PROVE Exclusive /\ Accounts /\ Finals
  BY InitTyped DEF Inv
<1>1. \A r \in Runs : run[r].pc = "idle" /\ ~Live(r) /\ \A s \in Students : run[r].payload[s] = NoMark
  BY DEF Init, EmptySlot, Held, Live, Working, NoPayload
<1>2. \A j \in Jobs : Apart(counted[j], {}) /\ counted[j].ok = {}
  BY DEF Init, NoBuckets, Result, Apart
<1> QED BY <1>1, <1>2 DEF Init, Exclusive, Accounts, Finals

\* The invariant holds in every reachable state.
LEMMA Invariance == Spec => []Inv
BY InitKeeps, StepKeeps, PTL DEF Spec

\* The types, and the CHECK of the table: pushed, skipped and failed students of
\* a job are different ones.
THEOREM TypesKept == Spec => []TypeOK
<1>1. Inv => TypeOK
  BY DEF Inv, Typed, JobTypes, RunTypes, GradeTypes, MoodleTypes, Limited, Accounts, TypeOK
<1> QED BY <1>1, Invariance, PTL

\* However often its message is delivered, a job sends a student's mark to
\* Moodle at most once: the row lock of the claim is what holds this up.
THEOREM MarksSentOnce == Spec => []SentAtMostOnce
<1>1. Inv => SentAtMostOnce
  BY DEF Inv, Accounts, SentAtMostOnce
<1> QED BY <1>1, Invariance, PTL

\* Whoever a completed job counts as pushed was sent by that job, and Moodle
\* stores no mark its reviewers had not finished.
THEOREM PushesAreTrue == Spec => []PushIsTrue
<1>1. Inv => ReportIsTrue
  BY DEF Inv, Accounts, ReportIsTrue
<1>2. Inv => OnlyFinalMarks
  BY DEF Inv, Finals, OnlyFinalMarks
<1>3. Inv => PushIsTrue
  BY <1>1, <1>2 DEF PushIsTrue
<1> QED BY <1>3, Invariance, PTL

=============================================================================
