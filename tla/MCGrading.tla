----------------------------- MODULE MCGrading -----------------------------
(***************************************************************************)
(* A small instance of Grading for TLC: two attempts, two questions, two   *)
(* imports that may overlap.                                               *)
(***************************************************************************)
EXTENDS Grading, TLC

CONSTANTS q1, q2

DateOfAttempt == [at \in AllAttempts |-> at]

=============================================================================
