------------------------------- MODULE Review -------------------------------
(***************************************************************************)
(* The review of one question (backend/api/question_review.py): it is      *)
(* edited, taken into review, approved, rejected and archived, and every   *)
(* change leaves a row in review_history.                                  *)
(*                                                                         *)
(* A handler loads the row, commits the columns it changed (a column set to*)
(* the value that was loaded is not written), and most of them commit the  *)
(* history in a second transaction.  A server process serves one request at*)
(* a time, as no handler awaits in between.                                *)
(***************************************************************************)
EXTENDS Integers, FiniteSets

CONSTANTS
    Hands,       \* server processes
    Reviewers,   \* users who may edit and review
    NoReviewer,
    NoRequest,
    Same,        \* a column that is not written
    MaxTexts     \* versions of the question (bound)

Statuses == {"pending", "in_review", "edited", "approved", "rejected"}
ReviewRequests ==
    [op : {"edit", "start", "approve", "reject", "archive", "restore", "log"},
     by : Reviewers, status : Statuses \cup {Same}, reviewer : Reviewers \cup {Same},
     row : Statuses]

ASSUME ReviewAssumption ==
    /\ IsFiniteSet(Hands) /\ MaxTexts \in Nat \ {0} /\ NoReviewer \notin Reviewers
    /\ Same \notin Statuses \cup Reviewers /\ NoRequest \notin ReviewRequests

VARIABLES
    card,        \* the row: status, text, creator, reviewer, shelved
    second,      \* institution.require_second_reviewer
    trail,       \* new_status of the last row of the history
    hand,        \* what a server process is about to write
    seen,        \* the text a reviewer has on the screen
    approval,    \* the last approval: by whom, of which text (history)
    died         \* a server process died between two commits (history)

reviewVars == <<card, second, trail, hand, seen, approval, died>>

-----------------------------------------------------------------------------
Serving == DOMAIN hand
Idle(h) == hand[h] = NoRequest

\* create_question_review, _persist_questions
ReviewInit ==
    /\ card \in [status : {"pending"}, text : {0}, creator : Reviewers,
                 reviewer : {NoReviewer}, shelved : {FALSE}]
    /\ second \in BOOLEAN
    /\ trail = "pending"
    /\ \E H \in (SUBSET Hands) \ {{}} : hand = [h \in H |-> NoRequest]
    /\ seen = [v \in Reviewers |-> 0]
    /\ approval = [by |-> NoReviewer, text |-> 0, seen |-> 0]
    /\ died = FALSE

\* get_question_review
Look(v) ==
    /\ \E h \in Serving : Idle(h)
    /\ seen' = [seen EXCEPT ![v] = card.text]
    /\ UNCHANGED <<card, second, trail, hand, approval, died>>

-----------------------------------------------------------------------------
(***************************************************************************)
(* Load and check                                                          *)
(***************************************************************************)
Changed(status) == IF status = card.status THEN Same ELSE status

Serve(h, v, op, status, reviewer) ==
    /\ Idle(h)
    /\ hand' = [hand EXCEPT ![h] = [op |-> op, by |-> v, status |-> Changed(status),
                                    reviewer |-> reviewer, row |-> status]]
    /\ UNCHANGED <<card, second, trail, seen, approval, died>>

\* The edits of the reviewer stay in the review.
StatusAfterEditMutant(v) ==
    IF card.status = "in_review" \/ card.reviewer = v THEN card.status ELSE "edited"
StatusAfterEdit(v) ==
    IF card.status = "in_review" /\ card.reviewer = v THEN "in_review" ELSE "edited"

EditQuestionText(h, v) == Serve(h, v, "edit", StatusAfterEdit(v), Same)

StartReview(h, v) ==
    /\ card.status \in {"pending", "edited"}
    /\ Serve(h, v, "start", "in_review", v)

\* Four eyes: neither who created it nor who took it into review.
ApproveQuestion(h, v) ==
    /\ second => v \notin {card.creator, card.reviewer}
    /\ Serve(h, v, "approve", "approved",
             IF card.reviewer = NoReviewer THEN v ELSE Same)

RejectQuestion(h, v) == Serve(h, v, "reject", "rejected", Same)

\* archive_question and restore_question
ShelveReview(h, v) ==
    Serve(h, v, IF card.shelved THEN "restore" ELSE "archive", card.status, Same)

-----------------------------------------------------------------------------
(***************************************************************************)
(* Commit and history                                                      *)
(***************************************************************************)
Written(r) ==
    [status |-> IF r.status = Same THEN card.status ELSE r.status,
     reviewer |-> IF r.reviewer = Same THEN card.reviewer ELSE r.reviewer,
     text |-> IF r.op = "edit" THEN card.text + 1 ELSE card.text,
     shelved |-> IF r.op \in {"archive", "restore"} THEN r.op = "archive" ELSE card.shelved,
     creator |-> card.creator]

\* Starting a review, archiving and restoring write their row in the same commit;
\* the row of an edit says the status that was read back after it.
CommitReview(h) ==
    LET r == hand[h] IN
    /\ ~Idle(h) /\ r.op # "log"
    /\ r.op = "edit" => card.text < MaxTexts
    /\ card' = Written(r)
    /\ IF r.op \in {"start", "archive", "restore"}
       THEN /\ trail' = r.row
            /\ hand' = [hand EXCEPT ![h] = NoRequest]
       ELSE /\ hand' = [hand EXCEPT ![h] = [r EXCEPT
                           !.op = "log", !.row = IF r.op = "edit" THEN card'.status ELSE @]]
            /\ UNCHANGED trail
    /\ approval' = IF r.op = "approve"
                   THEN [by |-> r.by, text |-> card.text, seen |-> seen[r.by]] ELSE approval
    /\ UNCHANGED <<second, seen, died>>

CommitHistory(h) ==
    /\ ~Idle(h) /\ hand[h].op = "log"
    /\ trail' = hand[h].row
    /\ hand' = [hand EXCEPT ![h] = NoRequest]
    /\ UNCHANGED <<card, second, seen, approval, died>>

\* The process dies, or the commit fails.
DropRequest(h) ==
    /\ ~Idle(h)
    /\ hand' = [hand EXCEPT ![h] = NoRequest]
    /\ died' = (died \/ hand[h].op = "log")
    /\ UNCHANGED <<card, second, trail, seen, approval>>

\* update_institution
RequireSecondReviewer ==
    /\ \E h \in Serving : Idle(h)
    /\ second' = ~second
    /\ UNCHANGED <<card, trail, hand, seen, approval, died>>

\* The account is erased: ON DELETE SET NULL.
EraseReviewer(v) ==
    /\ v \in {card.creator, card.reviewer}
    /\ card' = [card EXCEPT !.creator = IF @ = v THEN NoReviewer ELSE @,
                            !.reviewer = IF @ = v THEN NoReviewer ELSE @]
    /\ UNCHANGED <<second, trail, hand, seen, approval, died>>

ReviewNext ==
    \/ \E h \in Serving :
          \/ CommitReview(h) \/ CommitHistory(h) \/ DropRequest(h)
          \/ \E v \in Reviewers :
                \/ EditQuestionText(h, v) \/ StartReview(h, v) \/ ApproveQuestion(h, v)
                \/ RejectQuestion(h, v) \/ ShelveReview(h, v)
    \/ \E v \in Reviewers : Look(v) \/ EraseReviewer(v)
    \/ RequireSecondReviewer

ReviewSpec == ReviewInit /\ [][ReviewNext]_reviewVars

-----------------------------------------------------------------------------
\* With one server process an approved question is the one that was approved:
\* every later edit opens it again; the history tells the status, unless the
\* process died before it wrote it.
Approved(text) == card.status = "approved" => approval.text = text

ApprovalHolds == Cardinality(Serving) = 1 =>
    /\ Approved(card.text)
    /\ ~died /\ (\A h \in Serving : Idle(h)) => trail = card.status

\* The same with two processes, and that the reviewer approved what was on the
\* screen.  TLC refutes all three (README, section 4).
ApprovalHoldsAlways == Approved(card.text)
TrailTells == ~died /\ (\A h \in Serving : Idle(h)) => trail = card.status
ApprovedAsSeen == card.status = "approved" => approval.seen = approval.text

=============================================================================
