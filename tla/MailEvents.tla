----------------------------- MODULE MailEvents -----------------------------
(***************************************************************************)
(* What became of the mails: the webhook of the mail service               *)
(* (backend/webhooks/subscribeflow_webhooks.py) and the list of addresses  *)
(* that get no more of them (backend/models/email_event.py).               *)
(*                                                                         *)
(* The mail service delivers an event at least once and again after an     *)
(* answer other than 2xx.  A handler reads what is recorded and writes in  *)
(* one transaction; a process serves one event at a time, two processes    *)
(* interleave.                                                             *)
(***************************************************************************)
EXTENDS Integers, FiniteSets

CONSTANTS
    Mailers,     \* processes of the server
    MailEvent,   \* the events of the mail service: [mail, type, address, hard]
    NoMail,      \* an event without any correlation id
    NoAddress,   \* an event without an address
    NotServing,
    MaxFailures  \* failures and answers that are lost (bound)

ASSUME MailAssumption ==
    /\ IsFiniteSet(Mailers)
    /\ \A e \in MailEvent :
          /\ e.type \in {"sent", "delivered", "bounced", "complained"}
          /\ e.hard \in BOOLEAN

VARIABLES
    mailers,     \* processes that run
    outbox,      \* events the mail service still has to deliver
    answered,    \* events answered with 200
    recorded,    \* [MailEvent -> number of rows in email_events]
    suppressed,  \* [addresses on the list -> what is suppressed]
    serving,     \* [Mailers -> the event, and what its handler has read]
    failures

mailVars == <<mailers, outbox, answered, recorded, suppressed, serving, failures>>

-----------------------------------------------------------------------------
Addresses == {e.address : e \in MailEvent} \ {NoAddress}
Scope == {"transactional", "marketing"}

MailInit ==
    /\ mailers \in (SUBSET Mailers) \ {{}}
    /\ outbox = MailEvent
    /\ answered = {}
    /\ recorded = [e \in MailEvent |-> 0]
    /\ suppressed = [a \in Addresses |-> {}]
    /\ serving = [s \in Mailers |-> NotServing]
    /\ failures = 0

\* _event_already_recorded
Recorded(e) ==
    e.mail # NoMail /\ \E f \in MailEvent :
        recorded[f] > 0 /\ f.mail = e.mail /\ f.type = e.type

\* What an event suppresses; a bounce that is not hard suppresses nothing.
Suppresses(e) ==
    IF e.address = NoAddress THEN {}
    ELSE CASE e.type = "bounced" /\ e.hard -> Scope
           [] e.type = "complained" -> {"marketing"}
           [] OTHER -> {}

Receive(s, e) ==
    /\ s \in mailers /\ serving[s] = NotServing
    /\ e \in outbox
    /\ serving' = [serving EXCEPT ![s] =
          [event |-> e, known |-> Recorded(e),
           listed |-> Suppresses(e) # {} /\ suppressed[e.address] # {}]]
    /\ UNCHANGED <<mailers, outbox, answered, recorded, suppressed, failures>>

Takes(s) == serving[s] # NotServing
Done(s) == serving' = [serving EXCEPT ![s] = NotServing]

Answer(e, ok) ==
    /\ answered' = IF ok THEN answered \cup {e} ELSE answered
    /\ outbox' = IF ok THEN outbox \ {e} ELSE outbox

Faultless == UNCHANGED failures
Fault == failures < MaxFailures /\ failures' = failures + 1

Ignore(s) ==
    /\ Takes(s) /\ serving[s].known
    /\ Answer(serving[s].event, TRUE)
    /\ Done(s)
    /\ UNCHANGED <<mailers, recorded, suppressed, failures>>

\* An address has one row: who did not see it and inserts it again fails.
Duplicate(s) ==
    LET e == serving[s].event IN
    Suppresses(e) # {} /\ ~serving[s].listed /\ suppressed[e.address] # {}

Record(s) ==
    LET e == serving[s].event IN
    /\ Takes(s) /\ ~serving[s].known /\ ~Duplicate(s)
    /\ recorded' = [recorded EXCEPT ![e] = @ + 1]
    /\ suppressed' = IF Suppresses(e) = {} THEN suppressed
                     ELSE [suppressed EXCEPT ![e.address] = @ \cup Suppresses(e)]
    /\ \/ Answer(e, TRUE) /\ Faultless
       \/ UNCHANGED <<answered, outbox>> /\ Fault  \* the 200 does not arrive
    /\ Done(s)
    /\ UNCHANGED mailers

\* The handler fails and the transaction is rolled back: 500.
AcknowledgedMutant == TRUE
Acknowledged == FALSE

Fail(s) ==
    /\ Takes(s) /\ ~serving[s].known
    /\ IF Duplicate(s) THEN Faultless ELSE Fault
    /\ Answer(serving[s].event, Acknowledged)
    /\ Done(s)
    /\ UNCHANGED <<mailers, recorded, suppressed>>

MailNext == \E s \in Mailers :
    \/ \E e \in MailEvent : Receive(s, e)
    \/ Ignore(s) \/ Record(s) \/ Fail(s)

MailSpec == MailInit /\ [][MailNext]_mailVars

-----------------------------------------------------------------------------
\* Whatever order the events come in, whoever handles them, fails or answers
\* in vain: an event that was answered is recorded (of two events of a mail and
\* type, one is), the list says of every address exactly what the recorded
\* events call for, and with one process an event is recorded once.
SuppressionFollowsEvents ==
    /\ \A e \in answered : recorded[e] > 0 \/ Recorded(e)
    /\ \A a \in DOMAIN suppressed : suppressed[a] =
          UNION {Suppresses(e) : e \in {f \in MailEvent : f.address = a /\ recorded[f] > 0}}
    /\ Cardinality(mailers) = 1 =>
          \A e \in MailEvent : e.mail # NoMail => recorded[e] <= 1

\* What is not so: that a redelivery is never recorded twice ("turns a replay
\* into a harmless no-op"), and that an answered hard bounce suppresses its
\* address (it may follow a soft bounce of the same mail).  TLC refutes both
\* (README, section 4).
RecordedOnce == \A e \in MailEvent : e.mail # NoMail => recorded[e] <= 1
HardBounceSuppresses ==
    \A e \in answered : Suppresses(e) = Scope => suppressed[e.address] = Scope

=============================================================================
